---- MODULE Spec2Model ----
(***************************************************************************)
(* A model of pdf2md's layout reconstruction (src/pdf2md/converter.py):    *)
(* the paragraph/list merger, its merge predicates, heading detection and  *)
(* the Markdown renderer of one text block.                                *)
(*                                                                         *)
(* Text is a sequence of characters.  A character is a one-element string; *)
(* the non-ASCII glyphs of the source are written as the named characters  *)
(* BULLET (U+2022), ENDASH (U+2013) and ARROW (U+2192).  Lengths are in     *)
(* layout units (integers); font sizes are in tenths of a point, so that   *)
(* the source's ratio tests become exact integer comparisons.              *)
(***************************************************************************)
EXTENDS Integers, Sequences, FiniteSets, TLC

VARIABLES
    options,          \* self.options (ConversionOptions)
    pc,               \* position of the operation in progress
    blocks,           \* _merge_text_blocks: the argument
    sorted_blocks,    \* _merge_text_blocks: sorted_blocks
    i,                \* _merge_text_blocks: the cursor i
    j,                \* the look-ahead index j of the inner loops
    merged,           \* _merge_text_blocks: the list merged
    merged_text,      \* the running text of the block in progress
    merged_bbox,      \* the running bounding box of the block in progress
    blocks_consumed,  \* fragments fused into the block in progress
    origin,           \* per output block: its path and the fragments it holds
    args,             \* the arguments of the function being applied
    result,           \* the value it returned
    doc,              \* PDFConverter._doc: None or the open document
    image_counter,    \* PDFConverter._image_counter
    open_docs,        \* the documents opened by fitz.open and not yet closed
    cur_page,         \* convert_bytes: the page being extracted (from 1)
    img_index,        \* _extract_images: the image being extracted (from 1)
    images,           \* the ImageInfo objects of the conversion, in order
    conversions,      \* the conversions started on this converter
    input_index,      \* main: the input path being processed (from 1)
    success_count,    \* main: success_count
    error_count,      \* main: error_count
    processed,        \* the paths handed to process_single_file, in order
    call,             \* the call of convert_file / process_single_file under way
    output_file,      \* the file at the output path: its content, or "absent"
    stdout,           \* what was printed to standard output, in order
    pages_content,    \* convert_bytes: the indices of the pages extracted, in order
    page_mds,         \* convert_bytes: the page_md of each page rendered, in order
    markdown_pages,   \* convert_bytes: the renderings kept for joining
    full_markdown     \* convert_bytes: the string handed to _post_process_document

vars == <<options, pc, blocks, sorted_blocks, i, j, merged, merged_text,
          merged_bbox, blocks_consumed, origin, args, result,
          doc, image_counter, open_docs, cur_page, img_index, images,
          conversions, input_index, success_count, error_count, processed,
          call, output_file, stdout,
          pages_content, page_mds, markdown_pages, full_markdown>>

convVars == <<doc, image_counter, open_docs, cur_page, img_index, images,
              conversions>>

cliVars == <<input_index, success_count, error_count, processed>>

ioVars == <<call, output_file, stdout>>

renderVars == <<pages_content, page_mds, markdown_pages, full_markdown>>

mergeVars == <<blocks, sorted_blocks, i, j, merged, merged_text, merged_bbox,
               blocks_consumed, origin>>

(***************************************************************************)
(* Characters and character classes.                                       *)
(***************************************************************************)
BULLET == "bullet"
ENDASH == "endash"
ARROW == "arrow"
HYPHEN == "-"
HASH == "#"
SPACE == " "

\* The glyphs of BULLET_PATTERN's character class that the model uses.
BulletGlyphs == {BULLET, HYPHEN, ENDASH}
\* \d
Digits == {"0", "1", "2", "3", "4", "5", "6", "7", "8", "9"}
\* \s, and the characters str.strip() removes
Whitespace == {SPACE}

\* None as a heading level: "if heading_level:" is false for it as for 0.
None == 0

\* PDFConverter.__init__: no document, counter 0; no conversion made yet.
ConverterConstructed ==
    /\ doc = None
    /\ image_counter = 0
    /\ open_docs = {}
    /\ cur_page = 0
    /\ img_index = 0
    /\ images = <<>>
    /\ conversions = 0

\* main has not been entered.
MainNotEntered ==
    /\ input_index = 0
    /\ success_count = 0
    /\ error_count = 0
    /\ processed = <<>>

\* No conversion has extracted or rendered a page.
NothingRendered ==
    /\ pages_content = <<>>
    /\ page_mds = <<>>
    /\ markdown_pages = <<>>
    /\ full_markdown = <<>>

\* No call of convert_file or process_single_file is under way.
NoCall ==
    [ frame |-> "none", stage |-> "none", pdf_exists |-> FALSE,
      output_path |-> FALSE, outcome |-> "none",
      file_before |-> "absent", stdout_before |-> <<>> ]

\* Nothing was called and nothing written: no output file, empty stdout.
NothingWritten ==
    /\ call = NoCall
    /\ output_file = "absent"
    /\ stdout = <<>>

Min(a, b) == IF a <= b THEN a ELSE b
Max(a, b) == IF a >= b THEN a ELSE b
Abs(a) == IF a >= 0 THEN a ELSE 0 - a

(***************************************************************************)
(* String operations of Python, on sequences of characters.                *)
(***************************************************************************)
\* s[k:] for a 1-based k
Drop(s, k) == SubSeq(s, k, Len(s))

\* s.startswith(p)
startswith(s, p) == Len(s) >= Len(p) /\ SubSeq(s, 1, Len(p)) = p

\* s.endswith(p)
endswith(s, p) ==
    Len(s) >= Len(p) /\ SubSeq(s, Len(s) - Len(p) + 1, Len(s)) = p

RECURSIVE lstrip(_)
lstrip(s) ==
    IF s # <<>> /\ s[1] \in Whitespace THEN lstrip(Tail(s)) ELSE s

RECURSIVE rstrip(_)
rstrip(s) ==
    IF s # <<>> /\ s[Len(s)] \in Whitespace
    THEN rstrip(SubSeq(s, 1, Len(s) - 1))
    ELSE s

\* s.strip()
strip(s) == rstrip(lstrip(s))

\* The length of the longest prefix of s made of characters of class C.
RECURSIVE SpanLen(_, _)
SpanLen(s, C) ==
    IF s # <<>> /\ s[1] \in C THEN 1 + SpanLen(Tail(s), C) ELSE 0

\* p in s  (substring test)
Contains(s, p) ==
    \E k \in 1..(Len(s) - Len(p) + 1) : SubSeq(s, k, k + Len(p) - 1) = p

(***************************************************************************)
(* The patterns of the merger (class attributes and inline regular         *)
(* expressions), as predicates on a trimmed text.                          *)
(***************************************************************************)
\* BULLET_PATTERN.match(t):  ^[bullet glyphs]$
BULLET_PATTERN(t) == Len(t) = 1 /\ t[1] \in BulletGlyphs

\* NUMBER_PATTERN.match(t):  ^(\d+)[.):]\s*$
NUMBER_PATTERN(t) ==
    LET d == SpanLen(t, Digits) IN
    /\ d >= 1
    /\ Len(t) >= d + 1
    /\ t[d + 1] \in {".", ")", ":"}
    /\ SpanLen(Drop(t, d + 2), Whitespace) = Len(t) - d - 1

\* NUMBER_PATTERN's group(1)
number_group(t) == SubSeq(t, 1, SpanLen(t, Digits))

\* re.match(r"^[bullet glyphs]\s+", t)
bullet_item_start(t) ==
    Len(t) >= 2 /\ t[1] \in BulletGlyphs /\ t[2] \in Whitespace

\* re.match(r"^\d+[.)]\s+", t)
number_item_start(t) ==
    LET d == SpanLen(t, Digits) IN
    /\ d >= 1
    /\ Len(t) >= d + 2
    /\ t[d + 1] \in {".", ")"}
    /\ t[d + 2] \in Whitespace

(***************************************************************************)
(* Geometry.  A bbox is <<x0, y0, x1, y1>>.                                *)
(***************************************************************************)
merge_bboxes(bbox1, bbox2) ==
    << Min(bbox1[1], bbox2[1]), Min(bbox1[2], bbox2[2]),
       Max(bbox1[3], bbox2[3]), Max(bbox1[4], bbox2[4]) >>

(***************************************************************************)
(* The merge predicates.  They read options.line_merge_threshold.          *)
(***************************************************************************)
\* lines 508 and 629 with only the first disjunct: the bare arrow
is_continuation_arrow_bare_only(text) == text = <<ARROW>>

\* lines 508 and 629: text == ARROW or text.startswith(ARROW + " ")
is_continuation_arrow(text) ==
    text = <<ARROW>> \/ startswith(text, <<ARROW, SPACE>>)

\* lines 670-673 with the length test inverted
heading_then_body_long(fst, snd) ==
    fst.is_bold # snd.is_bold /\ fst.is_bold /\ Len(strip(fst.text)) >= 100

\* lines 670-673: a short bold first line followed by a line of other weight
heading_then_body(fst, snd) ==
    fst.is_bold # snd.is_bold /\ fst.is_bold /\ Len(strip(fst.text)) < 100

\* _should_join_bullet without its page test (lines 687-688 dropped)
should_join_bullet_any_page(bullet, content) ==
    LET vertical_gap == content.bbox[2] - bullet.bbox[4]
        line_height == bullet.bbox[4] - bullet.bbox[2]
    IN  IF vertical_gap > line_height + 5 THEN FALSE ELSE TRUE

\* _should_join_bullet with the gap test as >= (line 697)
should_join_bullet_below_limit(bullet, content) ==
    IF bullet.page_num # content.page_num THEN FALSE
    ELSE LET vertical_gap == content.bbox[2] - bullet.bbox[4]
             line_height == bullet.bbox[4] - bullet.bbox[2]
         IN  IF vertical_gap >= line_height + 5 THEN FALSE ELSE TRUE

\* _should_join_bullet(bullet, content)
should_join_bullet(bullet, content) ==
    IF bullet.page_num # content.page_num THEN FALSE
    ELSE LET vertical_gap == content.bbox[2] - bullet.bbox[4]
             line_height == bullet.bbox[4] - bullet.bbox[2]
         IN  IF vertical_gap > line_height + 5 THEN FALSE ELSE TRUE

\* _should_join_number(number, content)
should_join_number(number, content) == should_join_bullet(number, content)

\* _should_continue_list_item(first_content, candidate, prev)
\* min/max < 0.5 is 2*min < max for max > 0.
should_continue_list_item(first_content, candidate, prv) ==
    LET candidate_text == strip(candidate.text)
        line_height == prv.bbox[4] - prv.bbox[2]
        vertical_gap == candidate.bbox[2] - prv.bbox[4]
        max_gap == line_height + options.line_merge_threshold
        lo == Min(first_content.font_size, candidate.font_size)
        hi == Max(first_content.font_size, candidate.font_size)
    IN  IF first_content.page_num # candidate.page_num THEN FALSE
        ELSE IF startswith(candidate_text, <<HASH>>) THEN FALSE
        ELSE IF is_continuation_arrow(candidate_text) THEN TRUE
        ELSE IF BULLET_PATTERN(candidate_text) THEN FALSE
        ELSE IF NUMBER_PATTERN(candidate_text) THEN FALSE
        ELSE IF bullet_item_start(candidate_text) THEN FALSE
        ELSE IF number_item_start(candidate_text) THEN FALSE
        ELSE IF vertical_gap > max_gap THEN FALSE
        ELSE IF hi > 0 /\ 2 * lo < hi THEN FALSE
        ELSE TRUE

\* _should_merge_lines(first, second, prev)
\* min/max < 0.8 is 10*min < 8*max for max > 0.
should_merge_lines(fst, snd, prv) ==
    LET first_text == strip(fst.text)
        second_text == strip(snd.text)
        line_height == prv.bbox[4] - prv.bbox[2]
        vertical_gap == snd.bbox[2] - prv.bbox[4]
        max_gap == line_height + options.line_merge_threshold
        lo == Min(fst.font_size, snd.font_size)
        hi == Max(fst.font_size, snd.font_size)
        x_diff == Abs(fst.bbox[1] - snd.bbox[1])
    IN  IF fst.page_num # snd.page_num THEN FALSE
        ELSE IF startswith(first_text, <<HASH>>)
                \/ startswith(second_text, <<HASH>>) THEN FALSE
        ELSE IF is_continuation_arrow(second_text) THEN TRUE
        ELSE IF endswith(first_text, <<ARROW>>) THEN TRUE
        ELSE IF BULLET_PATTERN(second_text) THEN FALSE
        ELSE IF NUMBER_PATTERN(second_text) THEN FALSE
        ELSE IF bullet_item_start(second_text) THEN FALSE
        ELSE IF number_item_start(second_text) THEN FALSE
        ELSE IF vertical_gap > max_gap THEN FALSE
        ELSE IF hi > 0 /\ 10 * lo < 8 * hi THEN FALSE
        ELSE IF x_diff > 50 THEN FALSE
        ELSE IF heading_then_body(fst, snd) THEN FALSE
        ELSE TRUE

(***************************************************************************)
(* The hyphenation-aware join, as written in each of the three paths.      *)
(***************************************************************************)
\* bullet path, lines 402-405
bullet_append(text, candidate) ==
    IF endswith(text, <<HYPHEN>>)
    THEN SubSeq(text, 1, Len(text) - 1) \o strip(candidate.text)
    ELSE text \o <<SPACE>> \o strip(candidate.text)

\* number path, lines 449-452
number_append(text, candidate) ==
    IF endswith(text, <<HYPHEN>>)
    THEN SubSeq(text, 1, Len(text) - 1) \o strip(candidate.text)
    ELSE text \o <<SPACE>> \o strip(candidate.text)

\* lines 563-567 without the hyphen branch: always joined by a space
paragraph_append_spaced(text, next_block) ==
    text \o <<SPACE>> \o strip(next_block.text)

\* _merge_paragraph_lines, lines 563-567
paragraph_append(text, next_block) ==
    IF endswith(text, <<HYPHEN>>)
    THEN SubSeq(text, 1, Len(text) - 1) \o strip(next_block.text)
    ELSE text \o <<SPACE>> \o strip(next_block.text)

\* _count_merged_blocks(blocks, start_idx, merged): the loop from index k on
RECURSIVE count_from(_, _, _)
count_from(bs, start_idx, k) ==
    IF k > Len(bs) THEN 0
    ELSE IF ~should_merge_lines(bs[start_idx], bs[k], bs[k - 1]) THEN 0
    ELSE 1 + count_from(bs, start_idx, k + 1)

\* only the starting block is counted
count_merged_blocks_one(bs, start_idx) == 1

\* _count_merged_blocks(blocks, start_idx, merged)
count_merged_blocks(bs, start_idx) == 1 + count_from(bs, start_idx, start_idx + 1)

\* sorted(blocks, key=lambda b: (b.bbox[1], b.bbox[0])): a stable sort
key_le(a, b) ==
    a.bbox[2] < b.bbox[2] \/ (a.bbox[2] = b.bbox[2] /\ a.bbox[1] <= b.bbox[1])

RECURSIVE insert_sorted(_, _)
insert_sorted(s, b) ==
    IF s = <<>> THEN <<b>>
    ELSE IF key_le(s[Len(s)], b) THEN Append(s, b)
    ELSE Append(insert_sorted(SubSeq(s, 1, Len(s) - 1), b), s[Len(s)])

\* the blocks in the order given
sort_blocks_as_given(bs) == bs

RECURSIVE sort_blocks(_)
sort_blocks(bs) ==
    IF bs = <<>> THEN <<>>
    ELSE insert_sorted(sort_blocks(SubSeq(bs, 1, Len(bs) - 1)), bs[Len(bs)])

(***************************************************************************)
(* Data model.                                                             *)
(***************************************************************************)
\* ConversionOptions defaults (font sizes in tenths, the ratio times ten)
DefaultHeadingFontSizeThreshold == 140
DefaultMinHeadingSizeRatio == 12
DefaultLineMergeThreshold == 5

\* line 25: page_separator: str = "\n\n---\n\n"
DefaultPageSeparator == <<"\n", "\n", "-", "-", "-", "\n", "\n">>

ConversionOptions(headings, lists, bold_italic) ==
    [ detect_headings |-> headings,
      detect_lists |-> lists,
      detect_bold_italic |-> bold_italic,
      heading_font_size_threshold |-> DefaultHeadingFontSizeThreshold,
      min_heading_size_ratio |-> DefaultMinHeadingSizeRatio,
      line_merge_threshold |-> DefaultLineMergeThreshold,
      page_separator |-> DefaultPageSeparator,
      image_output_dir |-> <<>> ]

DefaultOptions == ConversionOptions(TRUE, TRUE, TRUE)

TextBlock(text, font_size, font_name, is_bold, is_italic, bbox, page_num, is_monospace, indent_level) ==
    [ text |-> text, font_size |-> font_size, font_name |-> font_name,
      is_bold |-> is_bold, is_italic |-> is_italic, bbox |-> bbox,
      page_num |-> page_num, is_monospace |-> is_monospace,
      indent_level |-> indent_level ]

(***************************************************************************)
(* _merge_text_blocks as a state machine.  pc is "start" on entry, "loop"  *)
(* at the head of the while loop, "bullet_cont" / "number_cont" inside the *)
(* continuation loop of a list item, "para" inside the loop of             *)
(* _merge_paragraph_lines, and "done" after the return.                    *)
(***************************************************************************)
Idle == <<>>

\* lines 371-378: the empty-input return, the sort, merged = [], i = 0
MergeEnter ==
    /\ pc = "start"
    /\ sorted_blocks' = sort_blocks(blocks)
    /\ i' = 1
    /\ merged' = <<>>
    /\ origin' = <<>>
    /\ IF blocks = <<>>
       THEN pc' = "done" /\ result' = <<>>
       ELSE pc' = "loop" /\ result' = result
    /\ UNCHANGED <<convVars, cliVars, ioVars, renderVars>>
    /\ UNCHANGED <<options, blocks, j, merged_text, merged_bbox,
                   blocks_consumed, args>>

current == sorted_blocks[i]
current_text == strip(current.text)
AtLoop == pc = "loop" /\ i <= Len(sorted_blocks)

BulletJoins ==
    /\ i + 1 <= Len(sorted_blocks)
    /\ should_join_bullet(current, sorted_blocks[i + 1])

NumberJoins ==
    /\ i + 1 <= Len(sorted_blocks)
    /\ should_join_number(current, sorted_blocks[i + 1])

\* lines 385-396: a standalone bullet fused with the next fragment
BulletJoin ==
    /\ AtLoop
    /\ BULLET_PATTERN(current_text)
    /\ BulletJoins
    /\ LET next_block == sorted_blocks[i + 1] IN
       /\ merged_text' = <<HYPHEN, SPACE>> \o strip(next_block.text)
       /\ merged_bbox' = merge_bboxes(current.bbox, next_block.bbox)
    /\ blocks_consumed' = 2
    /\ j' = i + 2
    /\ pc' = "bullet_cont"
    /\ UNCHANGED <<convVars, cliVars, ioVars, renderVars>>
    /\ UNCHANGED <<options, blocks, sorted_blocks, i, merged, origin, result, args>>

\* lines 425-427: a standalone bullet with no content is skipped
BulletSkip ==
    /\ AtLoop
    /\ BULLET_PATTERN(current_text)
    /\ ~BulletJoins
    /\ i' = i + 1
    /\ UNCHANGED <<convVars, cliVars, ioVars, renderVars>>
    /\ UNCHANGED <<options, pc, blocks, sorted_blocks, j, merged, merged_text,
                   merged_bbox, blocks_consumed, origin, result, args>>

\* lines 398-409: one iteration of the bullet item's continuation loop
BulletContinue ==
    /\ pc = "bullet_cont"
    /\ j <= Len(sorted_blocks)
    /\ should_continue_list_item(sorted_blocks[i + 1], sorted_blocks[j],
                                 sorted_blocks[j - 1])
    /\ merged_text' = bullet_append(merged_text, sorted_blocks[j])
    /\ merged_bbox' = merge_bboxes(merged_bbox, sorted_blocks[j].bbox)
    /\ blocks_consumed' = blocks_consumed + 1
    /\ j' = j + 1
    /\ UNCHANGED <<convVars, cliVars, ioVars, renderVars>>
    /\ UNCHANGED <<options, pc, blocks, sorted_blocks, i, merged, origin,
                   result, args>>

\* The block of lines 411-421 with the style taken from the marker.
list_item_block_marker_style ==
    TextBlock(merged_text, current.font_size, current.font_name,
              current.is_bold, current.is_italic, merged_bbox,
              current.page_num, current.is_monospace, current.indent_level)

\* The block built at lines 411-421 and 458-468.
list_item_block ==
    LET next_block == sorted_blocks[i + 1] IN
    TextBlock(merged_text, next_block.font_size, next_block.font_name,
              next_block.is_bold, next_block.is_italic, merged_bbox,
              current.page_num, next_block.is_monospace, current.indent_level)

\* lines 408-424: the loop ends; the block is appended and i advanced
BulletFinish ==
    /\ pc = "bullet_cont"
    /\ IF j > Len(sorted_blocks) THEN TRUE
       ELSE ~should_continue_list_item(sorted_blocks[i + 1], sorted_blocks[j],
                                       sorted_blocks[j - 1])
    /\ merged' = Append(merged, list_item_block)
    /\ origin' = Append(origin, [ kind |-> "bullet", anchor |-> i,
                                  parts |-> i..(i + blocks_consumed - 1) ])
    /\ i' = i + blocks_consumed
    /\ pc' = "loop"
    /\ UNCHANGED <<convVars, cliVars, ioVars, renderVars>>
    /\ UNCHANGED <<options, blocks, sorted_blocks, j, merged_text, merged_bbox,
                   blocks_consumed, result, args>>

\* lines 430-443: a standalone number fused with the next fragment
NumberJoin ==
    /\ AtLoop
    /\ ~BULLET_PATTERN(current_text)
    /\ NUMBER_PATTERN(current_text)
    /\ NumberJoins
    /\ LET next_block == sorted_blocks[i + 1] IN
       /\ merged_text' = number_group(current_text) \o <<".", SPACE>>
                            \o strip(next_block.text)
       /\ merged_bbox' = merge_bboxes(current.bbox, next_block.bbox)
    /\ blocks_consumed' = 2
    /\ j' = i + 2
    /\ pc' = "number_cont"
    /\ UNCHANGED <<convVars, cliVars, ioVars, renderVars>>
    /\ UNCHANGED <<options, blocks, sorted_blocks, i, merged, origin, result, args>>

\* lines 472-474: a standalone number with no content is skipped
NumberSkip ==
    /\ AtLoop
    /\ ~BULLET_PATTERN(current_text)
    /\ NUMBER_PATTERN(current_text)
    /\ ~NumberJoins
    /\ i' = i + 1
    /\ UNCHANGED <<convVars, cliVars, ioVars, renderVars>>
    /\ UNCHANGED <<options, pc, blocks, sorted_blocks, j, merged, merged_text,
                   merged_bbox, blocks_consumed, origin, result, args>>

\* lines 445-456: one iteration of the numbered item's continuation loop
NumberContinue ==
    /\ pc = "number_cont"
    /\ j <= Len(sorted_blocks)
    /\ should_continue_list_item(sorted_blocks[i + 1], sorted_blocks[j],
                                 sorted_blocks[j - 1])
    /\ merged_text' = number_append(merged_text, sorted_blocks[j])
    /\ merged_bbox' = merge_bboxes(merged_bbox, sorted_blocks[j].bbox)
    /\ blocks_consumed' = blocks_consumed + 1
    /\ j' = j + 1
    /\ UNCHANGED <<convVars, cliVars, ioVars, renderVars>>
    /\ UNCHANGED <<options, pc, blocks, sorted_blocks, i, merged, origin,
                   result, args>>

\* lines 455-471
NumberFinish ==
    /\ pc = "number_cont"
    /\ IF j > Len(sorted_blocks) THEN TRUE
       ELSE ~should_continue_list_item(sorted_blocks[i + 1], sorted_blocks[j],
                                       sorted_blocks[j - 1])
    /\ merged' = Append(merged, list_item_block)
    /\ origin' = Append(origin, [ kind |-> "number", anchor |-> i,
                                  parts |-> i..(i + blocks_consumed - 1) ])
    /\ i' = i + blocks_consumed
    /\ pc' = "loop"
    /\ UNCHANGED <<convVars, cliVars, ioVars, renderVars>>
    /\ UNCHANGED <<options, blocks, sorted_blocks, j, merged_text, merged_bbox,
                   blocks_consumed, result, args>>

\* lines 476-477 and 551-554: an ordinary fragment enters _merge_paragraph_lines
ParagraphStart ==
    /\ AtLoop
    /\ ~BULLET_PATTERN(current_text)
    /\ ~NUMBER_PATTERN(current_text)
    /\ merged_text' = strip(current.text)
    /\ merged_bbox' = current.bbox
    /\ blocks_consumed' = 1
    /\ j' = i + 1
    /\ pc' = "para"
    /\ UNCHANGED <<convVars, cliVars, ioVars, renderVars>>
    /\ UNCHANGED <<options, blocks, sorted_blocks, i, merged, origin, result, args>>

\* lines 556-570: one iteration of the loop of _merge_paragraph_lines
\* (end_idx is j - 1 throughout: the loop breaks at the first refusal)
ParagraphContinue ==
    /\ pc = "para"
    /\ j <= Len(sorted_blocks)
    /\ should_merge_lines(current, sorted_blocks[j], sorted_blocks[j - 1])
    /\ merged_text' = paragraph_append(merged_text, sorted_blocks[j])
    /\ merged_bbox' = merge_bboxes(merged_bbox, sorted_blocks[j].bbox)
    /\ blocks_consumed' = blocks_consumed + 1
    /\ j' = j + 1
    /\ UNCHANGED <<convVars, cliVars, ioVars, renderVars>>
    /\ UNCHANGED <<options, pc, blocks, sorted_blocks, i, merged, origin,
                   result, args>>

\* lines 572-582: the block _merge_paragraph_lines returns
paragraph_block ==
    TextBlock(merged_text, current.font_size, current.font_name,
              current.is_bold, current.is_italic, merged_bbox,
              current.page_num, current.is_monospace, current.indent_level)

\* lines 559-560, 572-582 and 478-482: the paragraph is returned and
\* appended, and i advanced by _count_merged_blocks
ParagraphFinish ==
    /\ pc = "para"
    /\ IF j > Len(sorted_blocks) THEN TRUE
       ELSE ~should_merge_lines(current, sorted_blocks[j], sorted_blocks[j - 1])
    /\ merged' = Append(merged, paragraph_block)
    /\ origin' = Append(origin, [ kind |-> "para", anchor |-> i,
                                  parts |-> i..(j - 1) ])
    /\ i' = i + count_merged_blocks(sorted_blocks, i)
    /\ pc' = "loop"
    /\ UNCHANGED <<convVars, cliVars, ioVars, renderVars>>
    /\ UNCHANGED <<options, blocks, sorted_blocks, j, merged_text, merged_bbox,
                   blocks_consumed, result, args>>

\* lines 380 and 484: the loop ends and merged is returned
MergeReturn ==
    /\ pc = "loop"
    /\ i > Len(sorted_blocks)
    /\ result' = merged
    /\ pc' = "done"
    /\ UNCHANGED <<convVars, cliVars, ioVars, renderVars>>
    /\ UNCHANGED <<options, mergeVars, args>>

NextMerge ==
    \/ MergeEnter
    \/ BulletJoin \/ BulletSkip \/ BulletContinue \/ BulletFinish
    \/ NumberJoin \/ NumberSkip \/ NumberContinue \/ NumberFinish
    \/ ParagraphStart \/ ParagraphContinue \/ ParagraphFinish
    \/ MergeReturn

(***************************************************************************)
(* The inputs of the merger: lists of at most MaxBlocks line fragments.    *)
(***************************************************************************)
MaxBlocks == 3

MergeTexts ==
    { <<BULLET>>,                 \* a standalone bullet marker
      <<"1", ".">>,               \* a standalone number marker
      <<SPACE, "a">>,             \* plain text, untrimmed
      <<"1", HYPHEN>>,            \* text ending in a hyphen
      <<".">>,                    \* punctuation split off its line
      <<HASH, "a">> }             \* a shell comment

\* <<page, top>>: two lines of page 0 one below the other, a line far
\* below them, and a line of page 1.
MergePlaces == { <<0, 100>>, <<0, 114>>, <<0, 150>>, <<1, 114>> }

IsMarkerText(t) == BULLET_PATTERN(strip(t)) \/ NUMBER_PATTERN(strip(t))

\* A fragment as _extract_text_blocks builds it: a marker sits at the left
\* margin, in the symbol font, one indent level in; content to its right.
Fragment(text, page, top) ==
    LET x0 == IF IsMarkerText(text) THEN 72 ELSE 85 IN
    TextBlock(text, 120, IF IsMarkerText(text) THEN "Symbol" ELSE "Arial",
              FALSE, FALSE, <<x0, top, x0 + 10 * Len(text), top + 12>>, page,
              FALSE, IF IsMarkerText(text) THEN 1 ELSE 0)

MergeFragments ==
    { Fragment(t, at[1], at[2]) : t \in MergeTexts, at \in MergePlaces }

InitMerge ==
    /\ options = DefaultOptions
    /\ pc = "start"
    /\ blocks \in UNION { [1..n -> MergeFragments] : n \in 0..MaxBlocks }
    /\ sorted_blocks = <<>>
    /\ i = 1
    /\ j = 1
    /\ merged = <<>>
    /\ merged_text = <<>>
    /\ merged_bbox = <<0, 0, 0, 0>>
    /\ blocks_consumed = 0
    /\ origin = <<>>
    /\ args = Idle
    /\ result = Idle
    /\ ConverterConstructed
    /\ MainNotEntered
    /\ NothingWritten
    /\ NothingRendered

SpecMerge == InitMerge /\ [][NextMerge]_vars

(***************************************************************************)
(* Properties of the merger, checked under SpecMerge.                      *)
(***************************************************************************)
IsBareBullet(t) == Len(t) = 1 /\ t[1] \in BulletGlyphs

IsBareNumber(t) ==
    /\ Len(t) >= 2
    /\ \A k \in 1..(Len(t) - 1) : t[k] \in Digits
    /\ t[Len(t)] \in {".", ")"}

\* C1: no block returned by the merger has a text that is exactly a bare
\* bullet glyph or a bare number marker (digits followed by '.' or ')').
C1_NoBareMarker ==
    \A k \in 1..Len(merged) :
        ~IsBareBullet(merged[k].text) /\ ~IsBareNumber(merged[k].text)

\* The text the join rule prescribes, character by character: new is run
\* without its final '-' followed by t, or run, one space, and t.
IsJoinOf(new, run, t) ==
    LET n == Len(run) IN
    IF n > 0 /\ run[n] = HYPHEN
    THEN /\ Len(new) = n - 1 + Len(t)
         /\ \A k \in 1..(n - 1) : new[k] = run[k]
         /\ \A k \in 1..Len(t) : new[n - 1 + k] = t[k]
    ELSE /\ Len(new) = n + 1 + Len(t)
         /\ \A k \in 1..n : new[k] = run[k]
         /\ new[n + 1] = SPACE
         /\ \A k \in 1..Len(t) : new[n + 1 + k] = t[k]

InnerLoop == {"bullet_cont", "number_cont", "para"}

\* C2: every step that fuses a fragment onto the running text, in the bullet,
\* the number and the paragraph path alike, yields the running text without
\* its final '-' directly followed by the fragment's trimmed text when the
\* running text ends in '-', and otherwise the running text, one space and
\* the fragment's trimmed text.
C2_JoinRule ==
    [][ (pc \in InnerLoop /\ pc' = pc /\ j' = j + 1)
        => IsJoinOf(merged_text', merged_text, strip(sorted_blocks[j].text)) ]_vars

\* A three-line paragraph "1-", " a", "." : hyphen repair, then a space.
C2_Witness ==
    /\ pc = "para"
    /\ blocks_consumed = 3
    /\ merged_text = <<"1", "a", SPACE, ".">>

\* C3: every block the merger returns holds only fragments of the page of
\* its anchor fragment, and carries that page index.
C3_SinglePage ==
    \A k \in 1..Len(origin) :
        /\ merged[k].page_num = sorted_blocks[origin[k].anchor].page_num
        /\ \A m \in origin[k].parts :
               sorted_blocks[m].page_num = merged[k].page_num

\* A block of two fragments directly followed, in the sorted list, by a
\* fragment of the other page on the next line.
C3_Witness ==
    \E k \in 1..Len(origin) :
        LET last == origin[k].anchor + Cardinality(origin[k].parts) - 1 IN
        /\ Cardinality(origin[k].parts) = 2
        /\ last + 1 <= Len(sorted_blocks)
        /\ sorted_blocks[last + 1].page_num # merged[k].page_num
        /\ sorted_blocks[last + 1].bbox[2] = 114
        /\ strip(sorted_blocks[last + 1].text) = <<"a">>

\* C4: a fragment whose trimmed text starts with '#' is never merged with
\* other lines: the block that holds it holds nothing else and has its text.
C4_HashNeverMerged ==
    \A k \in 1..Len(origin) :
        \A m \in origin[k].parts :
            startswith(strip(sorted_blocks[m].text), <<HASH>>)
                => /\ origin[k].parts = {m}
                   /\ merged[k].text = strip(sorted_blocks[m].text)

(***************************************************************************)
(* The merge predicates applied to arguments of their own: a first line    *)
(* (first / first_content / the marker), a candidate (second / candidate / *)
(* content) and the line before the candidate (prev).                      *)
(***************************************************************************)
\* lines 606-675
ApplyShouldMergeLines ==
    /\ pc = "predicate"
    /\ result' = should_merge_lines(args.first, args.second, args.prev)
    /\ pc' = "should_merge_lines"
    /\ UNCHANGED <<convVars, cliVars, ioVars, renderVars>>
    /\ UNCHANGED <<options, mergeVars, args>>

\* lines 486-539
ApplyShouldContinueListItem ==
    /\ pc = "predicate"
    /\ result' = should_continue_list_item(args.first, args.second, args.prev)
    /\ pc' = "should_continue_list_item"
    /\ UNCHANGED <<convVars, cliVars, ioVars, renderVars>>
    /\ UNCHANGED <<options, mergeVars, args>>

\* lines 677-701
ApplyShouldJoinBullet ==
    /\ pc = "predicate"
    /\ result' = should_join_bullet(args.first, args.second)
    /\ pc' = "should_join_bullet"
    /\ UNCHANGED <<convVars, cliVars, ioVars, renderVars>>
    /\ UNCHANGED <<options, mergeVars, args>>

NextPredicate ==
    \/ ApplyShouldMergeLines
    \/ ApplyShouldContinueListItem
    \/ ApplyShouldJoinBullet

\* A text of n characters.
Letters(n) == [k \in 1..n |-> "a"]

PredicateFragment(text, page, bold, size, x0, top) ==
    TextBlock(text, size, "Arial", bold, FALSE, <<x0, top, x0 + 100, top + 12>>, page, FALSE, 0)

\* The first line: at the left margin of page 0, 12 pt, bold or not; plain,
\* a comment, ending in an arrow, and of 99 and of 100 characters.
FirstTexts ==
    { <<"a">>, <<HASH, "a">>, <<"a", ARROW>>, Letters(99), Letters(100) }

FirstLines ==
    { PredicateFragment(t, 0, b, 120, 72, 100) : t \in FirstTexts, b \in BOOLEAN }

CandidateTexts ==
    { <<SPACE, "a">>, <<ARROW>>, <<ARROW, SPACE, "a">>, <<ARROW, "a">>,
      <<HASH, "a">>, <<BULLET>>, <<"1", ".">>, <<BULLET, SPACE, "a">>,
      <<"2", ")", SPACE, "a">> }

\* Font sizes of ratio 1, 0.75 and 0.42 to the first line's 12 pt.
CandidateSizes == {120, 90, 50}
\* Left edges 0 and 58 units from the first line's.
CandidateLefts == {72, 130}
\* Tops 2 and 38 units below the first line's bottom.
CandidateTops == {114, 150}

Candidates ==
    { PredicateFragment(t, p, b, s, x, y) :
        t \in CandidateTexts, p \in {0, 1}, b \in BOOLEAN,
        s \in CandidateSizes, x \in CandidateLefts, y \in CandidateTops }

\* A line between the first line and the candidate.
MiddleLine == PredicateFragment(<<"a">>, 0, FALSE, 120, 72, 126)

InitPredicate ==
    /\ options = DefaultOptions
    /\ pc = "predicate"
    /\ \E f \in FirstLines, c \in Candidates, p \in {"first", "middle"} :
           args = [ first |-> f, second |-> c,
                    prev |-> IF p = "first" THEN f ELSE MiddleLine ]
    /\ blocks = <<>>
    /\ sorted_blocks = <<>>
    /\ i = 1
    /\ j = 1
    /\ merged = <<>>
    /\ merged_text = <<>>
    /\ merged_bbox = <<0, 0, 0, 0>>
    /\ blocks_consumed = 0
    /\ origin = <<>>
    /\ result = Idle
    /\ ConverterConstructed
    /\ MainNotEntered
    /\ NothingWritten
    /\ NothingRendered

SpecPredicate == InitPredicate /\ [][NextPredicate]_vars

(***************************************************************************)
(* Properties of the merge predicates, checked under SpecPredicate.        *)
(***************************************************************************)
ShortBoldThenPlain ==
    /\ pc = "should_merge_lines"
    /\ args.first.is_bold
    /\ Len(strip(args.first.text)) < 100
    /\ ~args.second.is_bold

\* C5 as claimed: in the paragraph path a candidate that is not bold is never
\* merged into a paragraph whose first fragment is bold with fewer than 100
\* trimmed characters, whatever the candidate's text, position and font size.
C5_Original == ShortBoldThenPlain => result = FALSE

\* C5 as amended: in the paragraph path a candidate that is not bold is never
\* merged into a paragraph whose first fragment is bold with fewer than 100
\* trimmed characters, unless the candidate is the continuation arrow or
\* starts with the arrow and a space, or the first fragment ends in the
\* arrow.
C5_HeadingNotMerged ==
    ( /\ ShortBoldThenPlain
      /\ strip(args.second.text) # <<ARROW>>
      /\ ~startswith(strip(args.second.text), <<ARROW, SPACE>>)
      /\ ~endswith(strip(args.first.text), <<ARROW>>) )
    => result = FALSE

\* A bold 'a', then a plain ' a' right below it in the same font and column:
\* only the heading rule stands against the merge, and it is refused.
C5_Witness ==
    /\ pc = "should_merge_lines"
    /\ args.first = PredicateFragment(<<"a">>, 0, TRUE, 120, 72, 100)
    /\ args.second = PredicateFragment(<<SPACE, "a">>, 0, FALSE, 120, 72, 114)
    /\ args.prev = args.first
    /\ result = FALSE

PredicateOfMerger == pc \in {"should_merge_lines", "should_continue_list_item"}

ratio_at_least(size, base, r) ==
    IF base > 0 THEN 10 * size >= r * base ELSE 10 >= r

\* lines 1062-1069 with strict comparisons
detect_heading_level_strict(size, base) ==
    IF size < options.heading_font_size_threshold THEN None
    ELSE IF ~ratio_at_least(size, base, options.min_heading_size_ratio) THEN None
    ELSE IF 10 * size > 20 * base /\ base > 0 THEN 1
    ELSE IF 10 * size > 17 * base /\ base > 0 THEN 2
    ELSE IF 10 * size > 14 * base /\ base > 0 THEN 3
    ELSE IF 10 * size > 12 * base /\ base > 0 THEN 4
    ELSE None

\* _detect_heading_level(font_size, base_font_size)
detect_heading_level(size, base) ==
    IF size < options.heading_font_size_threshold THEN None
    ELSE IF ~ratio_at_least(size, base, options.min_heading_size_ratio) THEN None
    ELSE IF ratio_at_least(size, base, 20) THEN 1
    ELSE IF ratio_at_least(size, base, 17) THEN 2
    ELSE IF ratio_at_least(size, base, 14) THEN 3
    ELSE IF ratio_at_least(size, base, 12) THEN 4
    ELSE None

\* lines 1044-1071
ApplyDetectHeadingLevel ==
    /\ pc = "heading"
    /\ result' = detect_heading_level(args.font_size, args.base_font_size)
    /\ pc' = "detect_heading_level"
    /\ UNCHANGED <<convVars, cliVars, ioVars, renderVars>>
    /\ UNCHANGED <<options, mergeVars, args>>

NextHeading == ApplyDetectHeadingLevel

\* Font sizes 0.0 .. 30.0 pt in steps of a tenth.
MaxFontSize == 300

\* Base sizes: negative, zero, and 6, 10, 12 and 12.5 pt.
HeadingBases == {0 - 120, 0, 60, 100, 120, 125}

InitHeading ==
    /\ options = DefaultOptions
    /\ pc = "heading"
    /\ \E s \in 0..MaxFontSize, b \in HeadingBases :
           args = [ font_size |-> s, base_font_size |-> b ]
    /\ blocks = <<>>
    /\ sorted_blocks = <<>>
    /\ i = 1
    /\ j = 1
    /\ merged = <<>>
    /\ merged_text = <<>>
    /\ merged_bbox = <<0, 0, 0, 0>>
    /\ blocks_consumed = 0
    /\ origin = <<>>
    /\ result = Idle
    /\ ConverterConstructed
    /\ MainNotEntered
    /\ NothingWritten
    /\ NothingRendered

SpecHeading == InitHeading /\ [][NextHeading]_vars

\* C7: with default options the heading level is None when the size is below
\* 14.0, when the base is not positive and when size/base is below 1.2;
\* otherwise it is 1, 2, 3 or 4 by the largest of 2.0, 1.7, 1.4, 1.2 that
\* size/base reaches, boundaries included; so for a fixed base a larger size
\* is a heading too, of the same or a higher rank (a level not greater).
C7_HeadingLevels ==
    pc = "detect_heading_level" =>
        LET s == args.font_size
            b == args.base_font_size
        IN  /\ (s < 140 \/ b <= 0 \/ 10 * s < 12 * b) => result = None
            /\ ~(s < 140 \/ b <= 0 \/ 10 * s < 12 * b) =>
                   result = IF 10 * s >= 20 * b THEN 1
                            ELSE IF 10 * s >= 17 * b THEN 2
                            ELSE IF 10 * s >= 14 * b THEN 3
                            ELSE 4
            /\ result # None =>
                   \A t \in s..MaxFontSize :
                       /\ detect_heading_level(t, b) # None
                       /\ detect_heading_level(t, b) <= result

\* 20.4 pt on a 12 pt base: the ratio is exactly 1.7, level 2.
C7_Witness ==
    /\ pc = "detect_heading_level"
    /\ args = [ font_size |-> 204, base_font_size |-> 120 ]
    /\ result = 2

(***************************************************************************)
(* The renderer of one text block: _format_text_block and its helpers.     *)
(* Texts hold no line break (a fragment is one extracted line).            *)
(***************************************************************************)
BACKSLASH == "\\"
BACKTICK == "backtick"
STAR == "*"

\* " " * n
Spaces(n) == [k \in 1..n |-> SPACE]

\* "#" * n
Hashes(n) == [k \in 1..n |-> HASH]

\* " ".join(s.split()): trimmed, inner runs of whitespace collapsed
RECURSIVE collapse(_)
collapse(s) ==
    IF s = <<>> THEN <<>>
    ELSE IF s[1] \in Whitespace
         THEN <<SPACE>> \o collapse(lstrip(s))
         ELSE <<s[1]>> \o collapse(Tail(s))

normalize(s) == collapse(strip(s))

\* s.replace(old, new) for a non-empty old
RECURSIVE replace(_, _, _)
replace(s, old, new) ==
    IF Len(s) < Len(old) THEN s
    ELSE IF startswith(s, old)
         THEN new \o replace(Drop(s, Len(old) + 1), old, new)
         ELSE <<s[1]>> \o replace(Tail(s), old, new)

Link(text, url, bbox, page_num) ==
    [ text |-> text, url |-> url, bbox |-> bbox, page_num |-> page_num ]

\* _bboxes_overlap(bbox1, bbox2)
bboxes_overlap(bbox1, bbox2) ==
    ~( bbox1[3] < bbox2[1] \/ bbox2[3] < bbox1[1]
       \/ bbox1[4] < bbox2[2] \/ bbox2[4] < bbox1[2] )

\* f"[{text}]({url})"
link_markup(text, url) == <<"[">> \o text \o <<"]", "(">> \o url \o <<")">>

\* _apply_links(text, text_bbox, link_map): link_map in insertion order,
\* the loop from the k-th link on
RECURSIVE apply_links_from(_, _, _, _)
apply_links_from(text, text_bbox, link_map, k) ==
    IF k > Len(link_map) THEN text
    ELSE LET link == link_map[k] IN
         IF ~bboxes_overlap(text_bbox, link.bbox)
         THEN apply_links_from(text, text_bbox, link_map, k + 1)
         ELSE IF normalize(text) = normalize(link.text)
              THEN link_markup(text, link.url)
         ELSE IF Contains(text, link.text)
              THEN replace(text, link.text, link_markup(link.text, link.url))
         ELSE IF Contains(normalize(text), normalize(link.text))
              THEN link_markup(text, link.url)
         ELSE apply_links_from(text, text_bbox, link_map, k + 1)

apply_links(text, text_bbox, link_map) ==
    apply_links_from(text, text_bbox, link_map, 1)

\* _format_code_block without the indentation
format_code_block_flat(text, indent_level) ==
    <<BACKTICK>> \o text \o <<BACKTICK>>

\* _format_code_block(text, indent_level)
format_code_block(text, indent_level) ==
    Spaces(4 * indent_level) \o <<BACKTICK>> \o text \o <<BACKTICK>>

\* lines 990-995
style_content(content, is_bold, is_italic) ==
    IF is_bold /\ is_italic THEN <<STAR, STAR, STAR>> \o content \o <<STAR, STAR, STAR>>
    ELSE IF is_bold THEN <<STAR, STAR>> \o content \o <<STAR, STAR>>
    ELSE IF is_italic THEN <<STAR>> \o content \o <<STAR>>
    ELSE content

\* _format_list_item_with_style(text, is_bold, is_italic):
\* ^(-\s*)(.*)$ and ^(\d+\.\s*)(.*)$
format_list_item_with_style(text, is_bold, is_italic) ==
    LET d == SpanLen(text, Digits)
        bullet_match == startswith(text, <<HYPHEN>>)
        number_match == d >= 1 /\ Len(text) >= d + 1 /\ text[d + 1] = "."
        lead == IF bullet_match THEN 1 ELSE d + 1
        marker_len == lead + SpanLen(Drop(text, lead + 1), Whitespace)
    IN  IF bullet_match \/ number_match
        THEN SubSeq(text, 1, marker_len)
                 \o style_content(Drop(text, marker_len + 1), is_bold, is_italic)
        ELSE text

\* The content group of  <marker>\s+(.+)$  after a marker of lead characters:
\* greedy whitespace, giving back its last character when nothing follows.
list_content_matches(text, lead) ==
    LET w == SpanLen(Drop(text, lead + 1), Whitespace) IN
    w >= 1 /\ (Len(text) > lead + w \/ w >= 2)

list_content(text, lead) ==
    LET w == SpanLen(Drop(text, lead + 1), Whitespace) IN
    IF Len(text) > lead + w THEN Drop(text, lead + w + 1)
    ELSE <<text[Len(text)]>>

\* _detect_list_item(text)
detect_list_item(text) ==
    LET d == SpanLen(text, Digits) IN
    IF startswith(text, <<HYPHEN, SPACE>>)
       \/ (d >= 1 /\ Len(text) >= d + 2 /\ text[d + 1] = "." /\ text[d + 2] = SPACE)
    THEN text
    ELSE IF d >= 1 /\ Len(text) >= d + 1 /\ text[d + 1] \in {".", ")"}
            /\ list_content_matches(text, d + 1)
    THEN SubSeq(text, 1, d) \o <<".", SPACE>> \o list_content(text, d + 1)
    ELSE IF Len(text) >= 1 /\ text[1] \in BulletGlyphs
            /\ list_content_matches(text, 1)
    THEN <<HYPHEN, SPACE>> \o list_content(text, 1)
    ELSE text

\* lines 908-909
escape_hash(text) ==
    IF startswith(text, <<HASH>>) THEN <<BACKSLASH>> \o text ELSE text

\* line 920 without the space
heading_line_unspaced(heading_level, clean_text) ==
    Hashes(heading_level) \o clean_text

\* line 920: f"{'#' * heading_level} {clean_text}"
heading_line(heading_level, clean_text) ==
    Hashes(heading_level) \o <<SPACE>> \o clean_text

\* line 923: text.startswith("-") or re.match(r"^\d+\.", text)
is_list_item(text) ==
    LET d == SpanLen(text, Digits) IN
    startswith(text, <<HYPHEN>>)
    \/ (d >= 1 /\ Len(text) >= d + 1 /\ text[d + 1] = ".")

\* lines 926-937
apply_emphasis(text, block) ==
    IF ~options.detect_bold_italic THEN text
    ELSE IF is_list_item(text)
         THEN format_list_item_with_style(text, block.is_bold, block.is_italic)
    ELSE IF ~startswith(text, <<"[">>)
         THEN IF block.is_bold /\ block.is_italic
              THEN <<STAR, STAR, STAR>> \o text \o <<STAR, STAR, STAR>>
              ELSE IF block.is_bold THEN <<STAR, STAR>> \o text \o <<STAR, STAR>>
              ELSE IF block.is_italic THEN <<STAR>> \o text \o <<STAR>>
              ELSE text
    ELSE text

\* lines 922-949: the block is not code and not a heading
format_body(text, block) ==
    LET styled == apply_emphasis(text, block)
        listed == IF options.detect_lists THEN detect_list_item(styled) ELSE styled
    IN  IF block.indent_level > 0 /\ is_list_item(text)
        THEN Spaces(4 * block.indent_level) \o listed
        ELSE listed

\* _format_text_block(block, base_font_size, link_map)
format_text_block(block, base_font_size, link_map) ==
    LET text == strip(block.text) IN
    IF text = <<>> THEN <<>>
    ELSE IF block.is_monospace THEN format_code_block(text, block.indent_level)
    ELSE LET linked == apply_links(escape_hash(text), block.bbox, link_map)
             heading_level ==
                 IF options.detect_headings /\ ~block.is_monospace
                 THEN detect_heading_level(block.font_size, base_font_size)
                 ELSE None
         IN  IF heading_level # None THEN heading_line(heading_level, linked)
             ELSE format_body(linked, block)

\* lines 887-949
ApplyFormatTextBlock ==
    /\ pc = "format"
    /\ result' = format_text_block(args.block, args.base_font_size, args.link_map)
    /\ pc' = "format_text_block"
    /\ UNCHANGED <<convVars, cliVars, ioVars, renderVars>>
    /\ UNCHANGED <<options, mergeVars, args>>

NextFormat == ApplyFormatTextBlock

MaxIndentLevel == 1

FormatTexts ==
    { <<SPACE>>,                      \* blank
      <<SPACE, "a">>,                 \* plain text, untrimmed
      <<HYPHEN, SPACE, "a">>,         \* a merged bullet item
      <<"1", ".", SPACE, "a">>,       \* a merged numbered item
      <<BULLET, SPACE, "a">>,         \* a bullet item not yet normalised
      <<"2", ")", SPACE, "a">>,       \* a numbered item not yet normalised
      <<HASH, "a">>,                  \* a shell comment
      <<"[", "a">>,                   \* text that begins with a bracket
      <<HYPHEN, "a">>,                \* a hyphen that is no list marker
      <<"1", ".", "a">> }             \* a number that is no list marker

\* 12 pt (body), 16.8 pt and 24 pt (ratios 1.4 and 2.0 to the 12 pt base)
FormatSizes == {120, 168, 240}

FormatBlock(text, size, bold, italic, monospace, indent) ==
    TextBlock(text, size, "Arial", bold, italic, <<72, 100, 172, 112>>, 0, monospace, indent)

\* No link, a link on the text "a" over the block, the same link elsewhere.
LinkMaps ==
    { <<>>,
      << Link(<<"a">>, <<"u">>, <<80, 100, 90, 112>>, 0) >>,
      << Link(<<"a">>, <<"u">>, <<80, 300, 90, 312>>, 0) >> }

InitFormat ==
    /\ options \in { ConversionOptions(h, l, e) : h \in BOOLEAN, l \in BOOLEAN, e \in BOOLEAN }
    /\ pc = "format"
    /\ \E t \in FormatTexts, s \in FormatSizes, b \in BOOLEAN, it \in BOOLEAN,
          m \in BOOLEAN, n \in 0..MaxIndentLevel, lm \in LinkMaps :
           args = [ block |-> FormatBlock(t, s, b, it, m, n),
                    base_font_size |-> 120, link_map |-> lm ]
    /\ blocks = <<>>
    /\ sorted_blocks = <<>>
    /\ i = 1
    /\ j = 1
    /\ merged = <<>>
    /\ merged_text = <<>>
    /\ merged_bbox = <<0, 0, 0, 0>>
    /\ blocks_consumed = 0
    /\ origin = <<>>
    /\ result = Idle
    /\ ConverterConstructed
    /\ MainNotEntered
    /\ NothingWritten
    /\ NothingRendered

SpecFormat == InitFormat /\ [][NextFormat]_vars

(***************************************************************************)
(* Properties of the renderer, under SpecFormat.                           *)
(***************************************************************************)
Rendered == pc = "format_text_block"

TrimmedText == strip(args.block.text)

\* The text after '#'-escaping and link substitution.
LinkedText == apply_links(escape_hash(TrimmedText), args.block.bbox, args.link_map)

HeadingLevelOfBlock ==
    IF options.detect_headings
    THEN detect_heading_level(args.block.font_size, args.base_font_size)
    ELSE None

\* C8: a monospace block with non-blank text renders as 4 spaces per indent
\* level, a backtick, the trimmed text and a backtick, whatever its size,
\* flags, links, leading '#', list prefix and the options.
C8_MonospaceIsCode ==
    (Rendered /\ args.block.is_monospace /\ TrimmedText # <<>>)
        => result = Spaces(4 * args.block.indent_level)
                        \o <<BACKTICK>> \o TrimmedText \o <<BACKTICK>>

C8_Witness ==
    /\ Rendered
    /\ args.block.is_monospace /\ args.block.is_bold /\ args.block.is_italic
    /\ args.block.text = <<HASH, "a">>
    /\ args.block.font_size = 240
    /\ args.block.indent_level = 1
    /\ args.link_map # <<>> /\ bboxes_overlap(args.block.bbox, args.link_map[1].bbox)
    /\ options = DefaultOptions
    /\ result = <<SPACE, SPACE, SPACE, SPACE, BACKTICK, HASH, "a", BACKTICK>>

\* C9: with heading detection on, a non-monospace block classified as a
\* heading of level L renders as L '#', one space and the escaped, linked
\* text: no emphasis, no list normalisation, no indentation.
C9_HeadingLine ==
    (Rendered /\ ~args.block.is_monospace /\ TrimmedText # <<>>
        /\ HeadingLevelOfBlock # None)
        => result = Hashes(HeadingLevelOfBlock) \o <<SPACE>> \o LinkedText

C9_Witness ==
    /\ Rendered
    /\ ~args.block.is_monospace /\ args.block.is_bold /\ args.block.is_italic
    /\ args.block.text = <<BULLET, SPACE, "a">>
    /\ args.block.font_size = 168
    /\ args.block.indent_level = 1
    /\ options = DefaultOptions
    /\ result = <<HASH, HASH, HASH, SPACE, BULLET, SPACE, "[", "a", "]", "(", "u", ")">>

\* A text that starts with "- " or "<digits>. ", as a merged list item does.
IsMergedListItem(t) ==
    LET d == SpanLen(t, Digits) IN
    \/ startswith(t, <<HYPHEN, SPACE>>)
    \/ (d >= 1 /\ Len(t) >= d + 2 /\ t[d + 1] = "." /\ t[d + 2] = SPACE)

\* A text that list detection recognises afresh and normalises.
IsFreshListItem(t) == options.detect_lists /\ detect_list_item(t) # t

EmphasisCase ==
    /\ Rendered
    /\ options.detect_bold_italic
    /\ ~args.block.is_monospace
    /\ TrimmedText # <<>>
    /\ HeadingLevelOfBlock = None
    /\ (args.block.is_bold \/ args.block.is_italic)

\* C10: with emphasis detection on, a bold and/or italic block that is no
\* heading and not monospace renders, when it is a list item (merged or
\* detected afresh), as the normalised marker followed by the emphasised
\* content, and otherwise, unless it begins with '[', as its whole text
\* between the emphasis markers.
C10_MarkerOutsideEmphasis ==
    EmphasisCase =>
        IF IsMergedListItem(LinkedText) \/ IsFreshListItem(LinkedText)
        THEN lstrip(result) =
                 format_list_item_with_style(
                     IF IsMergedListItem(LinkedText) THEN LinkedText
                     ELSE detect_list_item(LinkedText),
                     args.block.is_bold, args.block.is_italic)
        ELSE startswith(LinkedText, <<"[">>)
             \/ result = style_content(LinkedText, args.block.is_bold, args.block.is_italic)

\* C11: a non-heading, non-monospace block of indent level L renders with a
\* prefix of exactly 4 * L spaces when its rendered text carries a "- " or
\* "<digits>. " marker and L > 0, and with no prefix otherwise.
C11_IndentIffListItem ==
    (Rendered /\ ~args.block.is_monospace /\ TrimmedText # <<>>
        /\ HeadingLevelOfBlock = None)
        => SpanLen(result, Whitespace) =
               IF IsMergedListItem(lstrip(result)) /\ args.block.indent_level > 0
               THEN 4 * args.block.indent_level
               ELSE 0

(***************************************************************************)
(* _apply_links on its own: a text, its box and a map of links.            *)
(***************************************************************************)
\* lines 999-1027
ApplyApplyLinks ==
    /\ pc = "links"
    /\ result' = apply_links(args.text, args.text_bbox, args.link_map)
    /\ pc' = "apply_links"
    /\ UNCHANGED <<convVars, cliVars, ioVars, renderVars>>
    /\ UNCHANGED <<options, mergeVars, args>>

NextLinks == ApplyApplyLinks

MaxLinks == 2

BlockBox == <<72, 100, 172, 112>>

BlockTexts ==
    { <<"a">>,
      <<"a", SPACE, "a">>,                       \* the link text twice
      <<"a", SPACE, SPACE, "b">>,                \* equal to "a b" once normalised
      <<"x", SPACE, "a", SPACE, SPACE, "b">>,    \* holds "a", and "a b" once normalised
      <<"c">> }

LinkTexts == { <<"a">>, <<"a", SPACE, "b">>, <<"b">> }

\* Inside the block's box, touching its corner, and away from it.
LinkBoxes == { <<80, 100, 90, 112>>, <<172, 112, 200, 124>>, <<80, 300, 90, 312>> }

\* The url tells which link text was used.
LinkOf(t, b) == Link(t, <<"u", t[Len(t)]>>, b, 0)

\* link_map is keyed by box: its links have distinct boxes.
LinkMapsUpTo(n) ==
    UNION { { lm \in [1..k -> { LinkOf(t, b) : t \in LinkTexts, b \in LinkBoxes }] :
                \A p, q \in 1..k : p # q => lm[p].bbox # lm[q].bbox } : k \in 0..n }

InitLinks ==
    /\ options = DefaultOptions
    /\ pc = "links"
    /\ \E t \in BlockTexts, lm \in LinkMapsUpTo(MaxLinks) :
           args = [ text |-> t, text_bbox |-> BlockBox, link_map |-> lm ]
    /\ blocks = <<>>
    /\ sorted_blocks = <<>>
    /\ i = 1
    /\ j = 1
    /\ merged = <<>>
    /\ merged_text = <<>>
    /\ merged_bbox = <<0, 0, 0, 0>>
    /\ blocks_consumed = 0
    /\ origin = <<>>
    /\ result = Idle
    /\ ConverterConstructed
    /\ MainNotEntered
    /\ NothingWritten
    /\ NothingRendered

SpecLinks == InitLinks /\ [][NextLinks]_vars

\* The boxes share at least a point (an edge or a corner counts).
BoxesMeet(a, b) == a[1] <= b[3] /\ b[1] <= a[3] /\ a[2] <= b[4] /\ b[2] <= a[4]

\* The rule (1, 2 or 3) a link matches on a text, 0 when none.
LinkRule(text, link) ==
    IF normalize(text) = normalize(link.text) THEN 1
    ELSE IF Contains(text, link.text) THEN 2
    ELSE IF Contains(normalize(text), normalize(link.text)) THEN 3
    ELSE 0

\* The text with its first occurrence of old replaced by new.
RECURSIVE ReplaceFirst(_, _, _)
ReplaceFirst(s, old, new) ==
    IF Len(s) < Len(old) THEN s
    ELSE IF startswith(s, old) THEN new \o Drop(s, Len(old) + 1)
    ELSE <<s[1]>> \o ReplaceFirst(Tail(s), old, new)

\* The number of links in a text: occurrences of "](".
RECURSIVE LinkCount(_)
LinkCount(s) ==
    IF Len(s) < 2 THEN 0
    ELSE (IF s[1] = "]" /\ s[2] = "(" THEN 1 ELSE 0) + LinkCount(Tail(s))

MatchingLinks ==
    { k \in 1..Len(args.link_map) :
        /\ BoxesMeet(args.text_bbox, args.link_map[k].bbox)
        /\ LinkRule(args.text, args.link_map[k]) # 0 }

FirstMatchingLink == CHOOSE k \in MatchingLinks : \A q \in MatchingLinks : k <= q

\* C12: _apply_links uses the first link that meets the block's box and
\* matches a rule, by its first matching rule: whole text wrapped (1, 3) or
\* only the link text replaced (2); the result holds at most one link, and
\* the text comes back unchanged when no link matches.
C12_FirstRuleOneLink ==
    pc = "apply_links" =>
        /\ LinkCount(result) <= 1
        /\ IF MatchingLinks = {} THEN result = args.text
           ELSE LET link == args.link_map[FirstMatchingLink] IN
                IF LinkRule(args.text, link) = 2
                THEN result = ReplaceFirst(args.text, link.text,
                                           link_markup(link.text, link.url))
                ELSE result = link_markup(args.text, link.url)

(***************************************************************************)
(* Indentation: _calculate_indent_thresholds and _get_indent_level.        *)
(* x-positions are whole points; a threshold, being an average, is the     *)
(* fraction num / den, and fractions are compared by cross-multiplication. *)
(***************************************************************************)
Fraction(num, den) == [ num |-> num, den |-> den ]

frac_le(a, b) == a.num * b.den <= b.num * a.den

Range(s) == { s[k] : k \in 1..Len(s) }

\* sorted(S) of a set of numbers
RECURSIVE sorted_set(_)
sorted_set(S) ==
    IF S = {} THEN <<>>
    ELSE LET lo == CHOOSE x \in S : \A y \in S : x <= y
         IN  <<lo>> \o sorted_set(S \ {lo})

\* sorted(clusters)
RECURSIVE insert_fraction(_, _)
insert_fraction(f, s) ==
    IF s = <<>> THEN <<f>>
    ELSE IF frac_le(s[1], f) THEN <<s[1]>> \o insert_fraction(f, Tail(s))
    ELSE <<f>> \o s

RECURSIVE sorted_fractions(_)
sorted_fractions(s) ==
    IF s = <<>> THEN <<>>
    ELSE insert_fraction(s[Len(s)], sorted_fractions(SubSeq(s, 1, Len(s) - 1)))

\* lines 319-329: the loop from the k-th position on, current_cluster held
\* as its sum and its length; pos - cluster_avg > 25
RECURSIVE cluster_from(_, _, _, _, _)
cluster_from(positions, k, cluster_sum, cluster_len, clusters) ==
    IF k > Len(positions)
    THEN Append(clusters, Fraction(cluster_sum, cluster_len))
    ELSE IF positions[k] * cluster_len - cluster_sum > 25 * cluster_len
         THEN cluster_from(positions, k + 1, positions[k], 1,
                           Append(clusters, Fraction(cluster_sum, cluster_len)))
         ELSE cluster_from(positions, k + 1, cluster_sum + positions[k],
                           cluster_len + 1, clusters)

\* lines 310-331 on positions taken in the order given
thresholds_of(positions) ==
    IF Len(positions) <= 1 THEN [k \in 1..Len(positions) |-> Fraction(positions[k], 1)]
    ELSE sorted_fractions(cluster_from(positions, 2, positions[1], 1, <<>>))

\* _calculate_indent_thresholds without sorted(set(...))
calculate_indent_thresholds_as_given(x_positions) ==
    thresholds_of(x_positions)

\* _calculate_indent_thresholds(x_positions)
calculate_indent_thresholds(x_positions) ==
    IF x_positions = <<>> THEN <<>>
    ELSE thresholds_of(sorted_set(Range(x_positions)))

\* lines 298-331
ApplyCalculateIndentThresholds ==
    /\ pc = "thresholds"
    /\ result' = calculate_indent_thresholds(args.x_positions)
    /\ pc' = "calculate_indent_thresholds"
    /\ UNCHANGED <<convVars, cliVars, ioVars, renderVars>>
    /\ UNCHANGED <<options, mergeVars, args>>

NextThresholds == ApplyCalculateIndentThresholds

MaxPositions == 3

\* Left edges: a margin, 8 and 18 points further in, and two deeper columns.
XOrigins == {72, 80, 90, 108, 144}

PositionLists == UNION { [1..n -> XOrigins] : n \in 0..MaxPositions }

InitThresholds ==
    /\ options = DefaultOptions
    /\ pc = "thresholds"
    /\ \E xs \in PositionLists : args = [ x_positions |-> xs ]
    /\ blocks = <<>>
    /\ sorted_blocks = <<>>
    /\ i = 1
    /\ j = 1
    /\ merged = <<>>
    /\ merged_text = <<>>
    /\ merged_bbox = <<0, 0, 0, 0>>
    /\ blocks_consumed = 0
    /\ origin = <<>>
    /\ result = Idle
    /\ ConverterConstructed
    /\ MainNotEntered
    /\ NothingWritten
    /\ NothingRendered

SpecThresholds == InitThresholds /\ [][NextThresholds]_vars

\* Strictly ascending as numbers.
Ascending(ts) ==
    \A k \in 1..(Len(ts) - 1) : ts[k].num * ts[k + 1].den < ts[k + 1].num * ts[k].den

\* C13: the thresholds depend only on the set of x-origins (a permuted or
\* duplicated input list gives the identical list) and are in ascending
\* order.
C13_ThresholdsOfSet ==
    pc = "calculate_indent_thresholds" =>
        /\ \A other \in PositionLists :
               Range(other) = Range(args.x_positions)
                   => calculate_indent_thresholds(other) = result
        /\ Ascending(result)

\* 90, 72, 72 clusters as 72, 90 does: one level at their average 81.
C13_Witness ==
    /\ pc = "calculate_indent_thresholds"
    /\ args.x_positions = <<90, 72, 72>>
    /\ result = <<Fraction(162, 2)>>

\* abs(x_pos - threshold) < abs(x_pos - other), both as fractions
nearer(x_pos, threshold, other) ==
    Abs(x_pos * threshold.den - threshold.num) * other.den
        < Abs(x_pos * other.den - other.num) * threshold.den

\* lines 349-353: the loop from the k-th threshold on; best = 0 stands for
\* min_dist = inf
RECURSIVE nearest_from(_, _, _, _)
nearest_from(x_pos, thresholds, k, best) ==
    IF k > Len(thresholds) THEN best
    ELSE IF best = 0 \/ nearer(x_pos, thresholds[k], thresholds[best])
         THEN nearest_from(x_pos, thresholds, k + 1, k)
         ELSE nearest_from(x_pos, thresholds, k + 1, best)

\* the loop with dist <= min_dist
RECURSIVE nearest_or_equal_from(_, _, _, _)
nearest_or_equal_from(x_pos, thresholds, k, best) ==
    IF k > Len(thresholds) THEN best
    ELSE IF best = 0 \/ ~nearer(x_pos, thresholds[best], thresholds[k])
         THEN nearest_or_equal_from(x_pos, thresholds, k + 1, k)
         ELSE nearest_or_equal_from(x_pos, thresholds, k + 1, best)

\* _get_indent_level taking the last of the nearest thresholds
get_indent_level_last(x_pos, thresholds) ==
    IF thresholds = <<>> THEN 0
    ELSE nearest_or_equal_from(x_pos, thresholds, 1, 0) - 1

\* _get_indent_level(x_pos, thresholds); levels count from 0
get_indent_level(x_pos, thresholds) ==
    IF thresholds = <<>> THEN 0
    ELSE nearest_from(x_pos, thresholds, 1, 0) - 1

\* lines 333-355
ApplyGetIndentLevel ==
    /\ pc = "indent"
    /\ result' = get_indent_level(args.x_pos, args.thresholds)
    /\ pc' = "get_indent_level"
    /\ UNCHANGED <<convVars, cliVars, ioVars, renderVars>>
    /\ UNCHANGED <<options, mergeVars, args>>

NextIndent == ApplyGetIndentLevel

MaxThresholds == 3

MinXPos == 60

MaxXPos == 120

\* Cluster averages: 72, 81 (of 72 and 90), 242/3 (of 72, 80, 90), 90, 108.
ThresholdPool ==
    { Fraction(72, 1), Fraction(162, 2), Fraction(242, 3), Fraction(90, 1),
      Fraction(108, 1) }

\* Threshold lists in ascending order, equal neighbours included.
ThresholdLists ==
    UNION { { ts \in [1..n -> ThresholdPool] :
                \A k \in 1..(n - 1) : frac_le(ts[k], ts[k + 1]) } : n \in 0..MaxThresholds }

InitIndent ==
    /\ options = DefaultOptions
    /\ pc = "indent"
    /\ \E x \in MinXPos..MaxXPos, ts \in ThresholdLists :
           args = [ x_pos |-> x, thresholds |-> ts ]
    /\ blocks = <<>>
    /\ sorted_blocks = <<>>
    /\ i = 1
    /\ j = 1
    /\ merged = <<>>
    /\ merged_text = <<>>
    /\ merged_bbox = <<0, 0, 0, 0>>
    /\ blocks_consumed = 0
    /\ origin = <<>>
    /\ result = Idle
    /\ ConverterConstructed
    /\ MainNotEntered
    /\ NothingWritten
    /\ NothingRendered

SpecIndent == InitIndent /\ [][NextIndent]_vars

\* C14: for an ascending threshold list _get_indent_level returns the index
\* of the threshold nearest to x (the lowest index on ties), a value of
\* 0..len-1 that does not decrease as x grows, and 0 for the empty list.
C14_NearestThreshold ==
    pc = "get_indent_level" =>
        LET ts == args.thresholds
            x == args.x_pos
        IN  IF ts = <<>> THEN result = 0
            ELSE /\ result \in 0..(Len(ts) - 1)
                 /\ \A k \in 1..Len(ts) : ~nearer(x, ts[k], ts[result + 1])
                 /\ \A k \in 1..result : nearer(x, ts[result + 1], ts[k])
                 /\ \A y \in MinXPos..x : get_indent_level(y, ts) <= result

\* 81 lies 9 points from both 72 and 90: the lower level is returned.
C14_Witness ==
    /\ pc = "get_indent_level"
    /\ args.x_pos = 81
    /\ args.thresholds = <<Fraction(72, 1), Fraction(90, 1), Fraction(108, 1)>>
    /\ result = 0

(***************************************************************************)
(* Cleanup of the rendered Markdown: _post_process_markdown (per page) and *)
(* _post_process_document.  Here a text may hold line breaks.              *)
(***************************************************************************)
NEWLINE == "\n"

\* \s and str.strip() on a text with line breaks
Blank == Whitespace \cup {NEWLINE}

\* The length of the longest suffix of s made of characters of class C.
RECURSIVE SpanLenBack(_, _)
SpanLenBack(s, C) ==
    IF s # <<>> /\ s[Len(s)] \in C
    THEN 1 + SpanLenBack(SubSeq(s, 1, Len(s) - 1), C)
    ELSE 0

\* markdown.strip()
strip_blank(s) ==
    LET l == SpanLen(s, Blank) IN
    IF l = Len(s) THEN <<>>
    ELSE SubSeq(s, l + 1, Len(s) - SpanLenBack(s, Blank))

\* s.split("\n")
RECURSIVE split_lines(_)
split_lines(s) ==
    IF \A k \in 1..Len(s) : s[k] # NEWLINE THEN <<s>>
    ELSE LET n == CHOOSE k \in 1..Len(s) :
                      s[k] = NEWLINE /\ \A q \in 1..(k - 1) : s[q] # NEWLINE
         IN  <<SubSeq(s, 1, n - 1)>> \o split_lines(Drop(s, n + 1))

\* "\n".join(lines)
RECURSIVE join_lines(_)
join_lines(lines) ==
    IF lines = <<>> THEN <<>>
    ELSE IF Len(lines) = 1 THEN lines[1]
    ELSE lines[1] \o <<NEWLINE>> \o join_lines(Tail(lines))

\* re.sub(r"\n{4,}", "\n\n\n", s)
RECURSIVE collapse_newlines(_)
collapse_newlines(s) ==
    IF s = <<>> THEN <<>>
    ELSE IF s[1] = NEWLINE
         THEN LET n == SpanLen(s, {NEWLINE}) IN
              [k \in 1..(IF n >= 4 THEN 3 ELSE n) |-> NEWLINE]
                  \o collapse_newlines(Drop(s, n + 1))
         ELSE <<s[1]>> \o collapse_newlines(Tail(s))

\* ^#{1,6} .+  up to the end of a line
is_heading_line(line) ==
    LET h == SpanLen(line, {HASH}) IN
    h >= 1 /\ h <= 6 /\ Len(line) >= h + 2 /\ line[h + 1] = SPACE

\* re.sub(r"(^#{1,6} .+)(\n)([^#\n])", r"\1\n\n\3", s, flags=re.MULTILINE),
\* line by line: a blank line goes between a heading line and a following
\* line that is not empty and does not start with '#'
RECURSIVE space_headings(_)
space_headings(lines) ==
    IF Len(lines) <= 1 THEN lines
    ELSE IF is_heading_line(lines[1]) /\ lines[2] # <<>> /\ lines[2][1] # HASH
         THEN <<lines[1], <<>>>> \o space_headings(Tail(lines))
         ELSE <<lines[1]>> \o space_headings(Tail(lines))

\* lines 1119-1129 for one line
clean_line(line) ==
    IF ~startswith(line, <<BACKTICK, BACKTICK, BACKTICK>>)
       /\ ~startswith(line, <<SPACE, SPACE, SPACE, SPACE>>)
    THEN LET stripped == lstrip(line)
             leading_ws == IF is_list_item(stripped)
                           THEN SubSeq(line, 1, Len(line) - Len(stripped))
                           ELSE <<>>
         IN  rstrip(leading_ws \o normalize(stripped))
    ELSE rstrip(line)

\* _post_process_markdown(markdown)
post_process_markdown(markdown) ==
    LET lines == space_headings(split_lines(collapse_newlines(markdown)))
    IN  strip_blank(join_lines([k \in 1..Len(lines) |-> clean_line(lines[k])]))

\* lines 1101-1132
ApplyPostProcessMarkdown ==
    /\ pc = "page"
    /\ result' = post_process_markdown(args.markdown)
    /\ pc' = "post_process_markdown"
    /\ UNCHANGED <<convVars, cliVars, ioVars, renderVars>>
    /\ UNCHANGED <<options, mergeVars, args>>

NextPage == ApplyPostProcessMarkdown

MaxLines == 5

\* An empty line, a line of one space, text, a heading, an indented list
\* item with wide gaps, and an indented line of four spaces and more.
PageLines ==
    { <<>>,
      <<SPACE>>,
      <<"a">>,
      <<HASH, SPACE, "a">>,
      <<SPACE, HYPHEN, SPACE, SPACE, "a">>,
      <<SPACE, SPACE, SPACE, SPACE, "a", SPACE>> }

InitPage ==
    /\ options = DefaultOptions
    /\ pc = "page"
    /\ \E n \in 1..MaxLines : \E lines \in [1..n -> PageLines] :
           args = [ markdown |-> join_lines(lines) ]
    /\ blocks = <<>>
    /\ sorted_blocks = <<>>
    /\ i = 1
    /\ j = 1
    /\ merged = <<>>
    /\ merged_text = <<>>
    /\ merged_bbox = <<0, 0, 0, 0>>
    /\ blocks_consumed = 0
    /\ origin = <<>>
    /\ result = Idle
    /\ ConverterConstructed
    /\ MainNotEntered
    /\ NothingWritten
    /\ NothingRendered

SpecPage == InitPage /\ [][NextPage]_vars

\* C15: the result of _post_process_markdown holds no run of four or more
\* consecutive newline characters.
C15_NoLongGap ==
    pc = "post_process_markdown" =>
        ~Contains(result, <<NEWLINE, NEWLINE, NEWLINE, NEWLINE>>)

(***************************************************************************)
(* _fix_orphaned_numbered_items: bold lines that lost their number.        *)
(***************************************************************************)
DigitChars == <<"0", "1", "2", "3", "4", "5", "6", "7", "8", "9">>

DigitValue(c) == (CHOOSE k \in 1..10 : DigitChars[k] = c) - 1

\* int(digits)
RECURSIVE int_of(_)
int_of(digits) ==
    IF digits = <<>> THEN 0
    ELSE 10 * int_of(SubSeq(digits, 1, Len(digits) - 1))
             + DigitValue(digits[Len(digits)])

\* str(n) for n >= 0
RECURSIVE str_of(_)
str_of(n) ==
    IF n < 10 THEN <<DigitChars[n + 1]>>
    ELSE str_of(n \div 10) \o <<DigitChars[(n % 10) + 1]>>

\* re.match(r"^(\d+)\.\s+", stripped)
num_match(stripped) ==
    LET d == SpanLen(stripped, Digits) IN
    d >= 1 /\ Len(stripped) >= d + 2 /\ stripped[d + 1] = "."
        /\ stripped[d + 2] \in Blank

\* int(num_match.group(1))
current_num(stripped) == int_of(SubSeq(stripped, 1, SpanLen(stripped, Digits)))

\* stripped.startswith("**") and stripped.endswith("**")
is_bold_line(stripped) ==
    startswith(stripped, <<STAR, STAR>>) /\ endswith(stripped, <<STAR, STAR>>)

\* stripped[2:-2]
bold_content(stripped) ==
    IF Len(stripped) >= 5 THEN SubSeq(stripped, 3, Len(stripped) - 2) ELSE <<>>

\* f"{expected_next}. **{content}**"
numbered_bold(expected_next, content) ==
    str_of(expected_next) \o <<".", SPACE, STAR, STAR>> \o content \o <<STAR, STAR>>

\* range(i + 1, min(i + 15, len(lines))): the bound 15
LookAhead == 15

\* lines 1193-1203: the number of the first numbered line among lines
\* from..hi (1-based), -1 when there is none
RECURSIVE future_num(_, _, _)
future_num(lines, from, hi) ==
    IF from > hi THEN 0 - 1
    ELSE IF num_match(strip(lines[from])) THEN current_num(strip(lines[from]))
    ELSE future_num(lines, from + 1, hi)

\* result_lines.append(line.strip())
stripped_line(line) == strip(line)

\* result_lines.append(line)
kept_line(line) == line

\* lines 1172-1211: the loop from the k-th line on (k = i + 1)
RECURSIVE fix_from(_, _, _)
fix_from(lines, k, last_number) ==
    IF k > Len(lines) THEN <<>>
    ELSE LET line == lines[k]
             stripped == strip(line)
         IN  IF num_match(stripped)
             THEN <<kept_line(line)>> \o fix_from(lines, k + 1, current_num(stripped))
             ELSE IF is_bold_line(stripped) /\ last_number > 0
                     /\ future_num(lines, k + 1, Min(k - 1 + LookAhead, Len(lines)))
                            > last_number + 1
             THEN <<numbered_bold(last_number + 1, bold_content(stripped))>>
                      \o fix_from(lines, k + 1, last_number + 1)
             ELSE <<kept_line(line)>> \o fix_from(lines, k + 1, last_number)

\* _fix_orphaned_numbered_items(markdown)
fix_orphaned_numbered_items(markdown) ==
    join_lines(fix_from(split_lines(markdown), 1, 0))

\* lines 1152-1213
ApplyFixOrphanedNumberedItems ==
    /\ pc = "orphans"
    /\ result' = fix_orphaned_numbered_items(args.markdown)
    /\ pc' = "fix_orphaned_numbered_items"
    /\ UNCHANGED <<convVars, cliVars, ioVars, renderVars>>
    /\ UNCHANGED <<options, mergeVars, args>>

NextOrphans == ApplyFixOrphanedNumberedItems

MaxHeadLines == 3

MaxTailLines == 2

\* Numbered items 1, 2 and 4, a bold line bare and with blanks around it,
\* and plain text.
ListLines ==
    { <<"1", ".", SPACE, "a">>,
      <<"2", ".", SPACE, "a">>,
      <<"4", ".", SPACE, "a">>,
      <<STAR, STAR, "b", STAR, STAR>>,
      <<SPACE, STAR, STAR, "b", STAR, STAR, SPACE>>,
      <<"a">> }

\* Runs of empty lines: none, and around the reach of the look-ahead.
GapLengths == {0, LookAhead - 2, LookAhead - 1, LookAhead}

\* Some lines, a run of empty lines, some more lines.
ListDocuments ==
    { head \o [k \in 1..g |-> <<>>] \o tail :
        head \in UNION { [1..n -> ListLines] : n \in 1..MaxHeadLines },
        g \in GapLengths,
        tail \in UNION { [1..n -> ListLines] : n \in 0..MaxTailLines } }

InitOrphans ==
    /\ options = DefaultOptions
    /\ pc = "orphans"
    /\ \E lines \in ListDocuments : args = [ markdown |-> join_lines(lines) ]
    /\ blocks = <<>>
    /\ sorted_blocks = <<>>
    /\ i = 1
    /\ j = 1
    /\ merged = <<>>
    /\ merged_text = <<>>
    /\ merged_bbox = <<0, 0, 0, 0>>
    /\ blocks_consumed = 0
    /\ origin = <<>>
    /\ result = Idle
    /\ ConverterConstructed
    /\ MainNotEntered
    /\ NothingWritten
    /\ NothingRendered

SpecOrphans == InitOrphans /\ [][NextOrphans]_vars

\* The repair as C17 words it: a bold line met with last number n > 0 is
\* renumbered exactly when the first numbered line among the reach lines
\* that follow it has a number above n + 1, and n + 1 is then tracked.
RECURSIVE RenumberedWithin(_, _, _, _)
RenumberedWithin(lines, k, n, reach) ==
    IF k > Len(lines) THEN <<>>
    ELSE LET stripped == strip(lines[k]) IN
         IF num_match(stripped)
         THEN <<lines[k]>> \o RenumberedWithin(lines, k + 1, current_num(stripped), reach)
         ELSE IF is_bold_line(stripped) /\ n > 0
                 /\ future_num(lines, k + 1, Min(k + reach, Len(lines))) > n + 1
         THEN <<numbered_bold(n + 1, bold_content(stripped))>>
                  \o RenumberedWithin(lines, k + 1, n + 1, reach)
         ELSE <<lines[k]>> \o RenumberedWithin(lines, k + 1, n, reach)

\* C17: a line wrapped in '**' met while the last seen number n is > 0 is
\* rewritten to '<n+1>. **content**' exactly when the next numbered line
\* within the 15 lines following it has a number above n + 1; n + 1 is
\* tracked after a rewrite, and otherwise the line is left as it is.
C17_RenumberWithinFifteen ==
    pc = "fix_orphaned_numbered_items" =>
        result = join_lines(RenumberedWithin(split_lines(args.markdown), 1, 0, 15))

\* The indices of the numbered lines.
NumberedLines(lines) == { k \in 1..Len(lines) : num_match(strip(lines[k])) }

\* The numbered lines read 1, 2, 3, ... in order.
Sequential(lines) ==
    LET numbered == NumberedLines(lines) IN
    \A k \in numbered :
        current_num(strip(lines[k])) = Cardinality({ q \in numbered : q <= k })

NoBoldLine(lines) == \A k \in 1..Len(lines) : ~is_bold_line(strip(lines[k]))

\* line comes from a renumbering of the bold line original
IsRenumbered(line, original) ==
    LET stripped == strip(original) IN
    /\ is_bold_line(stripped)
    /\ \E n \in 1..9 : line = numbered_bold(n, bold_content(stripped))

\* C18: _fix_orphaned_numbered_items keeps the number and the order of the
\* lines; a line of the result differs from the input's only where a bold
\* line was renumbered; an input without a bold line, or with a sequential
\* list, comes back identical.
C18_OtherLinesUntouched ==
    pc = "fix_orphaned_numbered_items" =>
        LET inp == split_lines(args.markdown)
            out == split_lines(result)
        IN  /\ Len(out) = Len(inp)
            /\ \A k \in 1..Len(inp) :
                   out[k] = inp[k] \/ IsRenumbered(out[k], inp[k])
            /\ (NoBoldLine(inp) \/ Sequential(inp)) => result = args.markdown

\* Items 1 and 4 with two bold lines between them, the second with blanks
\* around it and followed by a plain line that keeps its place.
C18_Witness ==
    /\ pc = "fix_orphaned_numbered_items"
    /\ split_lines(args.markdown) =
           << <<"1", ".", SPACE, "a">>,
              <<STAR, STAR, "b", STAR, STAR>>,
              <<SPACE, STAR, STAR, "b", STAR, STAR, SPACE>>,
              <<"a">>,
              <<"4", ".", SPACE, "a">> >>
    /\ split_lines(result) = << <<"1", ".", SPACE, "a">>,
                                <<"2", ".", SPACE, STAR, STAR, "b", STAR, STAR>>,
                                <<"3", ".", SPACE, STAR, STAR, "b", STAR, STAR>>,
                                <<"a">>,
                                <<"4", ".", SPACE, "a">> >>

(***************************************************************************)
(* _post_process_document: orphaned punctuation, then orphaned numbers.    *)
(* A pattern is matched at a 1-based position p of the text; the value is  *)
(* the position of the last character matched, 0 when there is no match.   *)
(***************************************************************************)
COMMA == ","

PERIOD == "."

\* The position after a \s* that starts at p.
skip_blank(s, p) == p + SpanLen(Drop(s, p), Blank)

\* The position after  \s*,  that starts at p, 0 when it does not match.
skip_comma(s, p) ==
    LET q == skip_blank(s, p) IN
    IF p # 0 /\ q <= Len(s) /\ s[q] = COMMA THEN q + 1 ELSE 0

\* r"\s*,\s*\.\s*$" with re.MULTILINE: the trailing \s* runs to the end of
\* the text, or else gives back as far as the last line break it crossed
comma_period_eol(s, p) ==
    LET c == skip_comma(s, p)
        r == skip_blank(s, c)
    IN  IF c = 0 \/ r > Len(s) \/ s[r] # PERIOD THEN 0
        ELSE LET w == SpanLen(Drop(s, r + 1), Blank)
                 breaks == { k \in 0..(w - 1) : s[r + k + 1] = NEWLINE }
             IN  IF r + w = Len(s) THEN Len(s)
                 ELSE IF breaks # {}
                      THEN r + (CHOOSE k \in breaks : \A q \in breaks : q <= k)
                      ELSE 0

\* r"\s*,\s*,\s*,\s*\."
three_commas_period(s, p) ==
    LET c == skip_comma(s, skip_comma(s, skip_comma(s, p)))
        r == skip_blank(s, c)
    IN  IF c = 0 \/ r > Len(s) \/ s[r] # PERIOD THEN 0 ELSE r

\* re.sub(r"\s*,\s*\.\s*$", ".", s, flags=re.MULTILINE) from position p on
RECURSIVE sub_comma_period_eol(_, _)
sub_comma_period_eol(s, p) ==
    IF p > Len(s) THEN <<>>
    ELSE LET e == comma_period_eol(s, p) IN
         IF e # 0 THEN <<PERIOD>> \o sub_comma_period_eol(s, e + 1)
         ELSE <<s[p]>> \o sub_comma_period_eol(s, p + 1)

\* re.sub(r"\s*,\s*,\s*,\s*\.", ".", s) from position p on
RECURSIVE sub_three_commas_period(_, _)
sub_three_commas_period(s, p) ==
    IF p > Len(s) THEN <<>>
    ELSE LET e == three_commas_period(s, p) IN
         IF e # 0 THEN <<PERIOD>> \o sub_three_commas_period(s, e + 1)
         ELSE <<s[p]>> \o sub_three_commas_period(s, p + 1)

\* _post_process_document(markdown)
post_process_document(markdown) ==
    fix_orphaned_numbered_items(
        sub_three_commas_period(sub_comma_period_eol(markdown, 1), 1))

\* lines 1134-1150
ApplyPostProcessDocument ==
    /\ pc = "document"
    /\ result' = post_process_document(args.markdown)
    /\ pc' = "post_process_document"
    /\ UNCHANGED <<convVars, cliVars, ioVars, renderVars>>
    /\ UNCHANGED <<options, mergeVars, args>>

NextDocument == ApplyPostProcessDocument

MaxChars == 5

DocumentChars == {"a", COMMA, PERIOD, SPACE, NEWLINE}

InitDocument ==
    /\ options = DefaultOptions
    /\ pc = "document"
    /\ \E n \in 0..MaxChars : \E text \in [1..n -> DocumentChars] :
           args = [ markdown |-> text ]
    /\ blocks = <<>>
    /\ sorted_blocks = <<>>
    /\ i = 1
    /\ j = 1
    /\ merged = <<>>
    /\ merged_text = <<>>
    /\ merged_bbox = <<0, 0, 0, 0>>
    /\ blocks_consumed = 0
    /\ origin = <<>>
    /\ result = Idle
    /\ ConverterConstructed
    /\ MainNotEntered
    /\ NothingWritten
    /\ NothingRendered

SpecDocument == InitDocument /\ [][NextDocument]_vars

\* The line ends with a comma and, possibly after whitespace, a period.
EndsCommaPeriod(line) ==
    /\ line # <<>>
    /\ line[Len(line)] = PERIOD
    /\ LET before == rstrip(SubSeq(line, 1, Len(line) - 1)) IN
       before # <<>> /\ before[Len(before)] = COMMA

\* C16: after _post_process_document no line of the result ends with a
\* comma followed, possibly after whitespace, by a period: every such run of
\* commas before a period has become the period alone.
C16_NoCommaPeriod ==
    pc = "post_process_document" =>
        LET out == split_lines(result) IN
        \A k \in 1..Len(out) : ~EndsCommaPeriod(out[k])

(***************************************************************************)
(* Conversions on one PDFConverter: convert_bytes with the page loop of    *)
(* _extract_page_content and the image loop of _extract_images.  A PDF is  *)
(* the sequence of the numbers of images of its pages; result holds how    *)
(* the last conversion ended.                                              *)
(***************************************************************************)
\* the counter left as the previous conversion left it
stale_image_counter == image_counter

\* line 143: self._image_counter = 0
initial_image_counter == 0

MaxConversions == 2

MaxPages == 3

MaxImagesPerPage == 1

PdfDocuments == UNION { [1..n -> 0..MaxImagesPerPage] : n \in 0..MaxPages }

\* What a page can render to: nothing, or some text.
PageRenderings == { <<>>, <<"a">>, <<"b">> }

PageSeparators == { DefaultPageSeparator, <<NEWLINE>> }

\* convert_bytes has not returned or raised yet
NotReturned == "running"

\* every page_md is kept
kept_page_always(page_md) == TRUE

\* line 154: if page_md.strip()
kept_page(page_md) == strip_blank(page_md) # <<>>

\* sep.join(items)
RECURSIVE join(_, _)
join(sep, items) ==
    IF items = <<>> THEN <<>>
    ELSE IF Len(items) = 1 THEN items[1]
    ELSE items[1] \o sep \o join(sep, Tail(items))

\* lines 142-146: fitz.open succeeds, the counter is reset, the try block
\* is entered
ConvertBytesOpens ==
    /\ pc = "idle"
    /\ conversions < MaxConversions
    /\ \E pdf_data \in PdfDocuments :
           /\ args' = [ pdf_data |-> pdf_data ]
           /\ pc' = IF pdf_data = <<>> THEN "render" ELSE "page"
    /\ conversions' = conversions + 1
    /\ doc' = conversions + 1
    /\ open_docs' = open_docs \cup {conversions + 1}
    /\ image_counter' = initial_image_counter
    /\ cur_page' = 1
    /\ img_index' = 0
    /\ images' = <<>>
    /\ pages_content' = <<>>
    /\ page_mds' = <<>>
    /\ markdown_pages' = <<>>
    /\ full_markdown' = <<>>
    /\ result' = NotReturned
    /\ UNCHANGED <<options, mergeVars, cliVars, ioVars>>

\* line 142: fitz.open raises; nothing was assigned
ConvertBytesOpenFails ==
    /\ pc = "idle"
    /\ conversions < MaxConversions
    /\ conversions' = conversions + 1
    /\ result' = "error"
    /\ UNCHANGED <<options, pc, mergeVars, cliVars, ioVars, renderVars, args, doc, image_counter,
                   open_docs, cur_page, img_index, images>>

\* lines 174-191: the text and the links of the page are extracted
ExtractPageText ==
    /\ pc = "page"
    /\ pc' = "images"
    /\ img_index' = 1
    /\ UNCHANGED <<options, mergeVars, cliVars, ioVars, renderVars, args, result, doc, image_counter,
                   open_docs, cur_page, images, conversions>>

\* lines 174-191: the extraction of the page raises
ExtractPageFails ==
    /\ pc = "page"
    /\ pc' = "finally"
    /\ result' = "error"
    /\ UNCHANGED <<options, mergeVars, cliVars, ioVars, renderVars, args, doc, image_counter,
                   open_docs, cur_page, img_index, images, conversions>>

\* lines 783-786, 817-819: extract_image raises or returns nothing
ImageSkipped ==
    /\ pc = "images"
    /\ img_index <= args.pdf_data[cur_page]
    /\ img_index' = img_index + 1
    /\ UNCHANGED <<options, pc, mergeVars, cliVars, ioVars, renderVars, args, result, doc,
                   image_counter, open_docs, cur_page, images, conversions>>

\* lines 794-816: the image gets the next number and is kept
ImageNumbered ==
    /\ pc = "images"
    /\ img_index <= args.pdf_data[cur_page]
    /\ image_counter' = image_counter + 1
    /\ images' = Append(images, [ page_num |-> cur_page,
                                  number |-> image_counter + 1 ])
    /\ img_index' = img_index + 1
    /\ UNCHANGED <<options, pc, mergeVars, cliVars, ioVars, renderVars, args, result, doc,
                   open_docs, cur_page, conversions>>

\* lines 794-805, 817-819: the counter is advanced, then writing the file
\* or locating the image raises and the image is skipped
ImageNumberedThenSkipped ==
    /\ pc = "images"
    /\ img_index <= args.pdf_data[cur_page]
    /\ image_counter' = image_counter + 1
    /\ img_index' = img_index + 1
    /\ UNCHANGED <<options, pc, mergeVars, cliVars, ioVars, renderVars, args, result, doc,
                   open_docs, cur_page, images, conversions>>

\* lines 147-149, 197, 822: the images of the page are done
PageExtracted ==
    /\ pc = "images"
    /\ img_index > args.pdf_data[cur_page]
    /\ pages_content' = Append(pages_content, cur_page)
    /\ cur_page' = cur_page + 1
    /\ pc' = IF cur_page + 1 > Len(args.pdf_data) THEN "render" ELSE "page"
    /\ UNCHANGED <<options, mergeVars, cliVars, ioVars, args, result, doc, image_counter,
                   open_docs, img_index, images, conversions, page_mds,
                   markdown_pages, full_markdown>>

\* lines 152-155: the next page of pages_content is rendered; its page_md
\* is kept if it is not blank
RenderPage ==
    /\ pc = "render"
    /\ Len(page_mds) < Len(pages_content)
    /\ \E page_md \in PageRenderings :
           /\ page_mds' = Append(page_mds, page_md)
           /\ markdown_pages' = IF kept_page(page_md)
                                THEN Append(markdown_pages, page_md)
                                ELSE markdown_pages
    /\ UNCHANGED <<options, pc, mergeVars, cliVars, ioVars, args, result, convVars,
                   pages_content, full_markdown>>

\* lines 158-159: every page is rendered; the kept renderings are joined
\* and the document is post-processed and returned
RenderReturns ==
    /\ pc = "render"
    /\ Len(page_mds) = Len(pages_content)
    /\ full_markdown' = join(options.page_separator, markdown_pages)
    /\ pc' = "finally"
    /\ result' = "markdown"
    /\ UNCHANGED <<options, mergeVars, cliVars, ioVars, args, convVars,
                   pages_content, page_mds, markdown_pages>>

\* lines 152-159: rendering or post-processing raises
RenderFails ==
    /\ pc = "render"
    /\ pc' = "finally"
    /\ result' = "error"
    /\ UNCHANGED <<options, mergeVars, cliVars, ioVars, renderVars, args, convVars>>

\* lines 160-162: finally
ConvertBytesFinally ==
    /\ pc = "finally"
    /\ open_docs' = open_docs \ {doc}
    /\ doc' = None
    /\ pc' = "idle"
    /\ UNCHANGED <<options, mergeVars, cliVars, ioVars, renderVars, args, result, image_counter,
                   cur_page, img_index, images, conversions>>

\* The steps of a conversion under way.
ConversionStep ==
    \/ ExtractPageText
    \/ ExtractPageFails
    \/ ImageSkipped
    \/ ImageNumbered
    \/ ImageNumberedThenSkipped
    \/ PageExtracted
    \/ RenderPage
    \/ RenderReturns
    \/ RenderFails
    \/ ConvertBytesFinally

NextConvert ==
    \/ ConvertBytesOpens
    \/ ConvertBytesOpenFails
    \/ ConversionStep

InitConvert ==
    /\ \E sep \in PageSeparators :
           options = [ DefaultOptions EXCEPT !.page_separator = sep ]
    /\ pc = "idle"
    /\ args = [ pdf_data |-> <<>> ]
    /\ blocks = <<>>
    /\ sorted_blocks = <<>>
    /\ i = 1
    /\ j = 1
    /\ merged = <<>>
    /\ merged_text = <<>>
    /\ merged_bbox = <<0, 0, 0, 0>>
    /\ blocks_consumed = 0
    /\ origin = <<>>
    /\ result = NotReturned
    /\ ConverterConstructed
    /\ MainNotEntered
    /\ NothingWritten
    /\ NothingRendered

\* A conversion is a sequential computation: once under way it goes on.
SpecConvert == InitConvert /\ [][NextConvert]_vars /\ WF_vars(ConversionStep)

RECURSIVE SumOf(_)
SumOf(s) == IF s = <<>> THEN 0 ELSE s[1] + SumOf(Tail(s))

UnderWay == pc # "idle"

\* C19: on one converter, every conversion enters its body with the image
\* counter at 0 and ends, by return or by error, with the document closed
\* and _doc back to None; within a conversion the counter only grows, so
\* its images carry distinct numbers that earlier conversions do not
\* influence.
C19_ConversionLifecycle ==
    /\ [][(~UnderWay /\ UnderWay') => image_counter' = 0]_vars
    /\ [][(UnderWay /\ UnderWay') => image_counter' >= image_counter]_vars
    /\ [](~UnderWay => (doc = None /\ open_docs = {}))
    /\ [](\A a, b \in 1..Len(images) : a < b => images[a].number < images[b].number)
    /\ [](\A a \in 1..Len(images) :
              images[a].number >= 1 /\ images[a].number <= SumOf(args.pdf_data))
    /\ (UnderWay ~> (~UnderWay /\ doc = None /\ open_docs = {}))

\* The second conversion has failed midway after numbering two images, 1
\* and 3, the image between them having been skipped.
C19_Witness ==
    /\ conversions = 2
    /\ pc = "finally"
    /\ result = "error"
    /\ Len(images) = 2
    /\ images[1].number = 1
    /\ images[2].number = 3

RECURSIVE TextLen(_)
TextLen(pages) ==
    IF pages = <<>> THEN 0 ELSE Len(pages[1]) + TextLen(Tail(pages))

NonBlankPages == SelectSeq(page_mds, LAMBDA md : \E k \in 1..Len(md) : md[k] \notin Blank)

\* The text t is the pages in order, each but the last followed by sep.
RECURSIVE SeparatedBy(_, _, _)
SeparatedBy(t, pages, sep) ==
    IF pages = <<>> THEN t = <<>>
    ELSE LET n == Len(pages[Len(pages)]) 
             m == Len(t) - n IN
         /\ m >= 0
         /\ SubSeq(t, m + 1, Len(t)) = pages[Len(pages)]
         /\ IF Len(pages) = 1 THEN m = 0
            ELSE /\ m >= Len(sep)
                 /\ SubSeq(t, m - Len(sep) + 1, m) = sep
                 /\ SeparatedBy(SubSeq(t, 1, m - Len(sep)),
                                SubSeq(pages, 1, Len(pages) - 1), sep)

\* C22: convert_bytes extracts the pages in ascending index, renders them
\* in that order once all are extracted, and hands to the document
\* post-processing the non-blank renderings in page order with the
\* configured separator between neighbours only: k renderings, k-1
\* separators, none leading, trailing or doubled.
C22_PagesJoinedInOrder ==
    /\ \A k \in 1..Len(pages_content) : pages_content[k] = k
    /\ Len(page_mds) <= Len(pages_content)
    /\ page_mds # <<>> => Len(pages_content) = Len(args.pdf_data)
    /\ markdown_pages = NonBlankPages
    /\ (pc = "finally" /\ result = "markdown") =>
           /\ Len(page_mds) = Len(args.pdf_data)
           /\ SeparatedBy(full_markdown, NonBlankPages, options.page_separator)
           /\ Len(full_markdown) =
                  TextLen(NonBlankPages)
                  + (IF NonBlankPages = <<>> THEN 0
                     ELSE (Len(NonBlankPages) - 1) * Len(options.page_separator))

\* Three pages rendered to "a", nothing and "b" were joined as a, the
\* separator, b.
C22_Witness ==
    /\ pc = "finally"
    /\ result = "markdown"
    /\ page_mds = << <<"a">>, <<>>, <<"b">> >>
    /\ full_markdown = <<"a">> \o DefaultPageSeparator \o <<"b">>

(***************************************************************************)
(* The command line: main and process_single_file (cli.py).  How an input  *)
(* fares (file missing, conversion raising, conversion done) is up to the  *)
(* environment; creating the output directory is taken to succeed.         *)
(***************************************************************************)
\* return 0 whatever error_count is
exit_code_success(errors) == 0

\* cli.py line 224: return 0 if error_count == 0 else 1
exit_code(errors) == IF errors = 0 THEN 0 ELSE 1

\* cli.py lines 195, 204: output and len(input_files) > 1
output_is_directory(parsed_args) ==
    parsed_args.output.given /\ Len(parsed_args.input) > 1

\* cli.py lines 184-192, 195-197, 204-206: several inputs and an output,
\* which is made a directory
MainMakesOutputDir ==
    /\ pc = "main"
    /\ output_is_directory(args)
    /\ success_count' = 0
    /\ error_count' = 0
    /\ input_index' = 1
    /\ pc' = "loop"
    /\ UNCHANGED <<options, mergeVars, convVars, ioVars, renderVars, args, result, processed>>

\* cli.py lines 184-192, 213-215: a single input, or no output (stdout)
MainSingleOrStdout ==
    /\ pc = "main"
    /\ ~output_is_directory(args)
    /\ success_count' = 0
    /\ error_count' = 0
    /\ input_index' = 1
    /\ pc' = "loop"
    /\ UNCHANGED <<options, mergeVars, convVars, ioVars, renderVars, args, result, processed>>

\* cli.py lines 146-148: the file does not exist; the input counts as error
ProcessMissingFile ==
    /\ pc = "loop"
    /\ input_index <= Len(args.input)
    /\ processed' = Append(processed, [ path |-> args.input[input_index],
                                        outcome |-> "missing" ])
    /\ error_count' = error_count + 1
    /\ input_index' = input_index + 1
    /\ UNCHANGED <<options, pc, mergeVars, convVars, ioVars, renderVars, args, result, success_count>>

\* cli.py lines 156-171: the conversion or the writing raises; the
\* exception is caught and the input counts as error
ProcessConversionError ==
    /\ pc = "loop"
    /\ input_index <= Len(args.input)
    /\ processed' = Append(processed, [ path |-> args.input[input_index],
                                        outcome |-> "error" ])
    /\ error_count' = error_count + 1
    /\ input_index' = input_index + 1
    /\ UNCHANGED <<options, pc, mergeVars, convVars, ioVars, renderVars, args, result, success_count>>

\* cli.py lines 156-167: converted and written; the input counts as success
ProcessSucceeds ==
    /\ pc = "loop"
    /\ input_index <= Len(args.input)
    /\ processed' = Append(processed, [ path |-> args.input[input_index],
                                        outcome |-> "converted" ])
    /\ success_count' = success_count + 1
    /\ input_index' = input_index + 1
    /\ UNCHANGED <<options, pc, mergeVars, convVars, ioVars, renderVars, args, result, error_count>>

\* cli.py lines 221-224: the loop is over
MainReturns ==
    /\ pc = "loop"
    /\ input_index > Len(args.input)
    /\ result' = exit_code(error_count)
    /\ pc' = "return"
    /\ UNCHANGED <<options, mergeVars, convVars, ioVars, renderVars, cliVars, args>>

NextCli ==
    \/ MainMakesOutputDir
    \/ MainSingleOrStdout
    \/ ProcessMissingFile
    \/ ProcessConversionError
    \/ ProcessSucceeds
    \/ MainReturns

MaxInputs == 3

InputPaths == {"a.pdf", "b.pdf"}

\* No -o, -o with a suffix, -o without one.
OutputChoices ==
    { [ given |-> FALSE, suffix |-> "" ],
      [ given |-> TRUE, suffix |-> ".md" ],
      [ given |-> TRUE, suffix |-> "" ] }

InitCli ==
    /\ options = DefaultOptions
    /\ pc = "main"
    /\ \E n \in 1..MaxInputs : \E input \in [1..n -> InputPaths] :
           \E output \in OutputChoices :
               args = [ input |-> input, output |-> output ]
    /\ blocks = <<>>
    /\ sorted_blocks = <<>>
    /\ i = 1
    /\ j = 1
    /\ merged = <<>>
    /\ merged_text = <<>>
    /\ merged_bbox = <<0, 0, 0, 0>>
    /\ blocks_consumed = 0
    /\ origin = <<>>
    /\ result = Idle
    /\ ConverterConstructed
    /\ MainNotEntered
    /\ NothingWritten
    /\ NothingRendered

SpecCli == InitCli /\ [][NextCli]_vars

Converted == { k \in 1..Len(processed) : processed[k].outcome = "converted" }

caught_as_success == "True"

\* cli.py lines 169-171: except Exception ... return False
caught == "False"

Call(frame) ==
    /\ call.frame = "none"
    /\ pc = "idle"
    /\ conversions < MaxConversions
    /\ \E pdf_exists \in BOOLEAN, output_path \in BOOLEAN :
           call' = [ frame |-> frame, stage |-> "enter",
                     pdf_exists |-> pdf_exists, output_path |-> output_path,
                     outcome |-> "pending",
                     file_before |-> output_file, stdout_before |-> stdout ]
    /\ result' = NotReturned
    /\ UNCHANGED <<options, pc, mergeVars, convVars, cliVars, renderVars, args,
                   output_file, stdout>>

\* convert_file(pdf_path, output_path) is called
CallConvertFile == Call("convert_file")

\* process_single_file(input_path, output_path, converter, verbose) is called
CallProcessSingleFile == Call("process_single_file")

\* lines 106-107: raise FileNotFoundError
ConvertFileNotFound ==
    /\ call.frame = "convert_file"
    /\ call.stage = "enter"
    /\ ~call.pdf_exists
    /\ result' = "FileNotFoundError"
    /\ call' = [ call EXCEPT !.stage = "done", !.outcome = "missing" ]
    /\ UNCHANGED <<options, pc, mergeVars, convVars, cliVars, renderVars, args,
                   output_file, stdout>>

\* cli.py lines 146-148: the error goes to stderr; return False
ProcessFileNotFound ==
    /\ call.frame = "process_single_file"
    /\ call.stage = "enter"
    /\ ~call.pdf_exists
    /\ result' = "False"
    /\ call' = [ call EXCEPT !.stage = "done", !.outcome = "missing" ]
    /\ UNCHANGED <<options, pc, mergeVars, convVars, cliVars, renderVars, args,
                   output_file, stdout>>

\* lines 109-110, 129: the file is opened and read; convert_bytes is next
FileRead ==
    /\ call.stage = "enter"
    /\ call.pdf_exists
    /\ call' = [ call EXCEPT !.stage = "converting" ]
    /\ UNCHANGED <<options, pc, mergeVars, convVars, cliVars, renderVars, args,
                   result, output_file, stdout>>

\* lines 109, 129: opening or reading the file raises
FileOpenFails ==
    /\ call.stage = "enter"
    /\ call.pdf_exists
    /\ call' = [ call EXCEPT !.stage = "converting" ]
    /\ result' = "error"
    /\ UNCHANGED <<options, pc, mergeVars, convVars, cliVars, renderVars, args,
                   output_file, stdout>>

\* line 130: convert_bytes is entered
ConversionStarts ==
    /\ call.stage = "converting"
    /\ result = NotReturned
    /\ (ConvertBytesOpens \/ ConvertBytesOpenFails)

\* convert_bytes has returned or raised
ConversionOver ==
    /\ call.stage = "converting"
    /\ pc = "idle"
    /\ result # NotReturned

\* lines 109-110: the exception of the conversion leaves convert_file
ConvertFileRaises ==
    /\ call.frame = "convert_file"
    /\ ConversionOver
    /\ result = "error"
    /\ call' = [ call EXCEPT !.stage = "done", !.outcome = "raised" ]
    /\ UNCHANGED <<options, pc, mergeVars, convVars, cliVars, renderVars, args,
                   result, output_file, stdout>>

\* lines 112-117: the markdown is written if an output path was given,
\* and returned
ConvertFileReturns ==
    /\ call.frame = "convert_file"
    /\ ConversionOver
    /\ result = "markdown"
    /\ output_file' = IF call.output_path THEN "markdown" ELSE output_file
    /\ call' = [ call EXCEPT !.stage = "done", !.outcome = "returned" ]
    /\ UNCHANGED <<options, pc, mergeVars, convVars, cliVars, renderVars, args,
                   result, stdout>>

\* lines 112-115: mkdir or write_text raises; what is left of the file is
\* up to the file system
ConvertFileWriteFails ==
    /\ call.frame = "convert_file"
    /\ ConversionOver
    /\ result = "markdown"
    /\ call.output_path
    /\ output_file' \in {output_file, "partial"}
    /\ result' = "error"
    /\ call' = [ call EXCEPT !.stage = "done", !.outcome = "write failed" ]
    /\ UNCHANGED <<options, pc, mergeVars, convVars, cliVars, renderVars, args,
                   stdout>>

\* cli.py lines 157, 169-171: the exception of convert_file is caught
ProcessCatches ==
    /\ call.frame = "process_single_file"
    /\ ConversionOver
    /\ result = "error"
    /\ result' = caught
    /\ call' = [ call EXCEPT !.stage = "done", !.outcome = "raised" ]
    /\ UNCHANGED <<options, pc, mergeVars, convVars, cliVars, renderVars, args,
                   output_file, stdout>>

\* cli.py lines 157-167: the markdown is written to the output path, or
\* printed; return True
ProcessWrites ==
    /\ call.frame = "process_single_file"
    /\ ConversionOver
    /\ result = "markdown"
    /\ output_file' = IF call.output_path THEN "markdown" ELSE output_file
    /\ stdout' = IF call.output_path THEN stdout ELSE Append(stdout, "markdown")
    /\ result' = "True"
    /\ call' = [ call EXCEPT !.stage = "done", !.outcome = "returned" ]
    /\ UNCHANGED <<options, pc, mergeVars, convVars, cliVars, renderVars, args>>

\* cli.py lines 159-165, 169-171: mkdir, write_text or print raises and is
\* caught; what was written by then is up to the file system
ProcessWriteFails ==
    /\ call.frame = "process_single_file"
    /\ ConversionOver
    /\ result = "markdown"
    /\ IF call.output_path
       THEN /\ output_file' \in {output_file, "partial"}
            /\ stdout' = stdout
       ELSE /\ output_file' = output_file
            /\ stdout' \in {stdout, Append(stdout, "partial")}
    /\ result' = caught
    /\ call' = [ call EXCEPT !.stage = "done", !.outcome = "write failed" ]
    /\ UNCHANGED <<options, pc, mergeVars, convVars, cliVars, renderVars, args>>

\* the caller has the value or the exception and goes on
CallOver ==
    /\ call.stage = "done"
    /\ call' = NoCall
    /\ UNCHANGED <<options, pc, mergeVars, convVars, cliVars, renderVars, args,
                   result, output_file, stdout>>

NextFile ==
    \/ CallConvertFile
    \/ CallProcessSingleFile
    \/ ConvertFileNotFound
    \/ ProcessFileNotFound
    \/ FileRead
    \/ FileOpenFails
    \/ ConversionStarts
    \/ ConversionStep
    \/ ConvertFileRaises
    \/ ConvertFileReturns
    \/ ConvertFileWriteFails
    \/ ProcessCatches
    \/ ProcessWrites
    \/ ProcessWriteFails
    \/ CallOver

InitFile ==
    /\ options = DefaultOptions
    /\ pc = "idle"
    /\ args = [ pdf_data |-> <<>> ]
    /\ blocks = <<>>
    /\ sorted_blocks = <<>>
    /\ i = 1
    /\ j = 1
    /\ merged = <<>>
    /\ merged_text = <<>>
    /\ merged_bbox = <<0, 0, 0, 0>>
    /\ blocks_consumed = 0
    /\ origin = <<>>
    /\ result = NotReturned
    /\ ConverterConstructed
    /\ MainNotEntered
    /\ NothingRendered
    /\ call = NoCall
    /\ output_file \in {"absent", "old"}
    /\ stdout = <<>>

SpecFile == InitFile /\ [][NextFile]_vars

\* The conversion of the call under way has failed: the input is missing,
\* or opening, extracting or rendering raised.
ConversionFailed == call.stage = "done" /\ call.outcome \in {"missing", "raised"}

\* C21: when the conversion fails, the error reaches the caller and no
\* Markdown is put out: convert_file raises and leaves the output file as
\* it was, absent or with its old content; process_single_file returns
\* False and leaves its output path and stdout as they were.
C21_FailureWritesNothing ==
    ConversionFailed =>
        /\ output_file = call.file_before
        /\ stdout = call.stdout_before
        /\ call.frame = "convert_file" => result \in {"FileNotFoundError", "error"}
        /\ call.frame = "process_single_file" => result = "False"
        /\ (call.outcome = "missing" /\ call.frame = "convert_file") =>
               (result = "FileNotFoundError" /\ doc = None /\ open_docs = {})

\* After a first call that wrote the output file, process_single_file was
\* called with the same output path and its conversion raised once a page
\* had been extracted.
C21_Witness ==
    /\ ConversionFailed
    /\ call.frame = "process_single_file"
    /\ call.outcome = "raised"
    /\ call.output_path
    /\ call.file_before = "markdown"
    /\ pages_content # <<>>
    /\ conversions = 2

(***************************************************************************)
(* Tables.  _is_inside_table and the exclusion of table text from the flow *)
(* of a page are described by the specification (section 4.3) and          *)
(* exercised by tests/test_converter.py; coordinates are whole numbers and *)
(* the centre of a box is compared doubled, so no half is lost.            *)
(***************************************************************************)
TableInfo(data, bbox, page_num) == [ data |-> data, bbox |-> bbox, page_num |-> page_num ]

\* a block is inside a table as soon as the two boxes overlap
is_inside_table_by_overlap(bbox, tables) ==
    \E t \in 1..Len(tables) :
        /\ bbox[1] < tables[t].bbox[3]
        /\ bbox[3] > tables[t].bbox[1]
        /\ bbox[2] < tables[t].bbox[4]
        /\ bbox[4] > tables[t].bbox[2]

\* _is_inside_table(bbox, tables): the centre of bbox lies in the
\* rectangle of some table
is_inside_table(bbox, tables) ==
    LET center_x2 == bbox[1] + bbox[3]
        center_y2 == bbox[2] + bbox[4] IN
    \E t \in 1..Len(tables) :
        /\ 2 * tables[t].bbox[1] <= center_x2
        /\ center_x2 <= 2 * tables[t].bbox[3]
        /\ 2 * tables[t].bbox[2] <= center_y2
        /\ center_y2 <= 2 * tables[t].bbox[4]

\* the text blocks of a page that go through paragraph and heading
\* rendering: those not inside a table
flow_blocks(text_blocks, tables) ==
    SelectSeq(text_blocks, LAMBDA b : ~is_inside_table(b.bbox, tables))

ApplyIsInsideTable ==
    /\ pc = "tables"
    /\ result' = [ inside |-> [ k \in 1..Len(args.text_blocks) |->
                                 is_inside_table(args.text_blocks[k].bbox, args.tables) ],
                   flow |-> flow_blocks(args.text_blocks, args.tables) ]
    /\ pc' = "is_inside_table"
    /\ UNCHANGED <<options, mergeVars, convVars, cliVars, ioVars, renderVars, args>>

NextTables == ApplyIsInsideTable

MaxCoord == 4

MaxTables == 2

MaxTableBlocks == 2

\* Boxes of text lines: one row high.
BlockBoxes ==
    { b \in (0..MaxCoord) \X (1..2) \X (0..MaxCoord) \X (2..3) :
          b[1] < b[3] /\ b[4] = b[2] + 1 }

TableBoxes == { <<1, 1, 3, 2>>, <<2, 2, MaxCoord, 3>> }

TableBlocks == { [ text |-> <<"a">>, bbox |-> b ] : b \in BlockBoxes }

InitTables ==
    /\ options = DefaultOptions
    /\ pc = "tables"
    /\ \E n \in 1..MaxTableBlocks, t \in 0..MaxTables :
           \E text_blocks \in [1..n -> TableBlocks], boxes \in [1..t -> TableBoxes] :
               args = [ text_blocks |-> text_blocks,
                        tables |-> [ k \in 1..t |-> TableInfo(<< <<"A">> >>, boxes[k], 0) ] ]
    /\ blocks = <<>>
    /\ sorted_blocks = <<>>
    /\ i = 1
    /\ j = 1
    /\ merged = <<>>
    /\ merged_text = <<>>
    /\ merged_bbox = <<0, 0, 0, 0>>
    /\ blocks_consumed = 0
    /\ origin = <<>>
    /\ result = Idle
    /\ ConverterConstructed
    /\ MainNotEntered
    /\ NothingWritten
    /\ NothingRendered

SpecTables == InitTables /\ [][NextTables]_vars

\* Twice the centre of the box b lies in twice the rectangle r.
CentreIn(b, r) ==
    /\ b[1] + b[3] \in (2 * r[1])..(2 * r[3])
    /\ b[2] + b[4] \in (2 * r[2])..(2 * r[4])

\* The boxes b and r share a point, edges included.
Touches(b, r) ==
    /\ b[1] <= r[3]
    /\ r[1] <= b[3]
    /\ b[2] <= r[4]
    /\ r[2] <= b[4]

\* The box b reaches beyond the rectangle r.
Beyond(b, r) == b[1] < r[1] \/ b[3] > r[3] \/ b[2] < r[2] \/ b[4] > r[4]

TablesDone == pc = "is_inside_table"

\* C23: a block is inside a table iff the centre of its box lies in the
\* rectangle of some table: a box that overlaps tables only with its
\* centre outside each is not inside, a box whose centre is in a table is
\* inside even where an edge reaches beyond it; and the blocks that go
\* through normal rendering are exactly those not inside, in their order.
C23_CentreDecides ==
    TablesDone =>
        LET bs == args.text_blocks
            ts == args.tables IN
        /\ \A k \in 1..Len(bs) :
               /\ result.inside[k] <=> \E t \in 1..Len(ts) : CentreIn(bs[k].bbox, ts[t].bbox)
               /\ (\A t \in 1..Len(ts) : ~CentreIn(bs[k].bbox, ts[t].bbox))
                      => ~result.inside[k]
               /\ (\E t \in 1..Len(ts) :
                       CentreIn(bs[k].bbox, ts[t].bbox) /\ Beyond(bs[k].bbox, ts[t].bbox))
                      => result.inside[k]
        /\ \A k \in 1..Len(result.flow) :
               \A t \in 1..Len(ts) : ~CentreIn(result.flow[k].bbox, ts[t].bbox)
        /\ Len(result.flow) = Cardinality({ k \in 1..Len(bs) : ~result.inside[k] })
        /\ \A k \in 1..Len(bs) :
               ~result.inside[k] => \E f \in 1..Len(result.flow) : result.flow[f] = bs[k]

\* Of two blocks that both overlap the table, the first has its centre
\* outside and stays in the flow, the second has its centre inside, an
\* edge beyond the table, and is left out.
C23_Witness ==
    /\ TablesDone
    /\ Len(args.text_blocks) = 2
    /\ Len(args.tables) = 1
    /\ Touches(args.text_blocks[1].bbox, args.tables[1].bbox)
    /\ ~CentreIn(args.text_blocks[1].bbox, args.tables[1].bbox)
    /\ is_inside_table_by_overlap(args.text_blocks[1].bbox, args.tables)
    /\ CentreIn(args.text_blocks[2].bbox, args.tables[1].bbox)
    /\ Beyond(args.text_blocks[2].bbox, args.tables[1].bbox)
    /\ result.inside = <<FALSE, TRUE>>
    /\ result.flow = <<args.text_blocks[1]>>

(***************************************************************************)
(* List items: the merger on markers and styled content.  A marker is set  *)
(* in the symbol font, smaller and plain, one indent level in; content is  *)
(* plain or bold italic monospace, left or right of the marker; a line     *)
(* sits 17 or 18 units below the bottom of the first line, or on the next  *)
(* page.                                                                   *)
(***************************************************************************)
ItemTexts == { <<BULLET>>, <<"1", ")">>, <<"a">>, <<"b", "c">> }

ItemPlaces == { <<0, 100>>, <<0, 129>>, <<0, 130>>, <<1, 100>> }

MarkerFragment(text, page, top) ==
    TextBlock(text, 100, "Symbol", FALSE, FALSE,
              <<72, top, 72 + 6 * Len(text), top + 12>>, page, FALSE, 1)

PlainFragment(text, page, top) ==
    TextBlock(text, 120, "Arial", FALSE, FALSE,
              <<85, top, 85 + 6 * Len(text), top + 12>>, page, FALSE, 2)

StyledFragment(text, page, top) ==
    TextBlock(text, 140, "Courier-BoldOblique", TRUE, TRUE,
              <<60, top - 1, 60 + 6 * Len(text), top + 12>>, page, TRUE, 0)

ItemFragments ==
    { MarkerFragment(t, at[1], at[2]) :
          t \in { u \in ItemTexts : IsMarkerText(u) }, at \in ItemPlaces }
    \cup { PlainFragment(t, at[1], at[2]) :
          t \in { u \in ItemTexts : ~IsMarkerText(u) }, at \in ItemPlaces }
    \cup { StyledFragment(t, at[1], at[2]) :
          t \in { u \in ItemTexts : ~IsMarkerText(u) }, at \in ItemPlaces }

InitItems ==
    /\ options = DefaultOptions
    /\ pc = "start"
    /\ blocks \in UNION { [1..n -> ItemFragments] : n \in 0..MaxBlocks }
    /\ sorted_blocks = <<>>
    /\ i = 1
    /\ j = 1
    /\ merged = <<>>
    /\ merged_text = <<>>
    /\ merged_bbox = <<0, 0, 0, 0>>
    /\ blocks_consumed = 0
    /\ origin = <<>>
    /\ args = Idle
    /\ result = Idle
    /\ ConverterConstructed
    /\ MainNotEntered
    /\ NothingWritten
    /\ NothingRendered

SpecItems == InitItems /\ [][NextMerge]_vars

IsListEntry(e) == e.kind \in {"bullet", "number"}

\* The fragment at p of the sorted list went into some block.
Covered(p) == \E k \in 1..Len(origin) : p \in origin[k].parts

\* A block was started at p.
Anchored(p) == \E k \in 1..Len(origin) : origin[k].anchor = p

\* The fragment at q is on the page of the marker at p, its top at most
\* the marker's line height plus 5 below the marker's bottom.
JoinTest(p, q) ==
    LET marker == sorted_blocks[p]
        content == sorted_blocks[q] IN
    /\ content.page_num = marker.page_num
    /\ content.bbox[2] <= marker.bbox[4] + (marker.bbox[4] - marker.bbox[2]) + 5

MergeDone == pc = "done" /\ blocks # <<>>

\* C24: a standalone marker is fused only with the fragment right after it
\* in the sorted list, and only if that fragment is on its page with its
\* top at most the marker's line height plus 5 below the marker's bottom;
\* a marker that is last, or whose next fragment fails the test, gives no
\* block, and the next fragment then starts a block of its own (or is
\* itself a marker dealt with in its turn).
C24_MarkerJoinsNextOnly ==
    MergeDone =>
        /\ \A k \in 1..Len(origin) :
               LET a == origin[k].anchor IN
               IF IsListEntry(origin[k])
               THEN /\ IsMarkerText(sorted_blocks[a].text)
                    /\ a + 1 \in origin[k].parts
                    /\ JoinTest(a, a + 1)
                    /\ \E lead \in {<<HYPHEN, SPACE>>, <<"1", ".", SPACE>>} :
                           startswith(merged[k].text,
                                      lead \o strip(sorted_blocks[a + 1].text))
               ELSE ~IsMarkerText(sorted_blocks[a].text)
        /\ \A p \in 1..Len(sorted_blocks) :
               ~Covered(p) =>
                   /\ IsMarkerText(sorted_blocks[p].text)
                   /\ p = Len(sorted_blocks) \/ ~JoinTest(p, p + 1)
                   /\ p < Len(sorted_blocks) => (Anchored(p + 1) \/ ~Covered(p + 1))
        /\ \A p \in 1..(Len(sorted_blocks) - 1) :
               (Anchored(p) /\ IsMarkerText(sorted_blocks[p].text)) => JoinTest(p, p + 1)

\* A bullet with a line of its page 18 units below its bottom, one more
\* than its line height plus 5: the bullet is gone and the line is a block
\* of its own.
C24_Witness ==
    /\ MergeDone
    /\ Len(sorted_blocks) = 2
    /\ sorted_blocks[1].text = <<BULLET>>
    /\ sorted_blocks[1].bbox[4] = 112
    /\ sorted_blocks[2].bbox[2] = 130
    /\ sorted_blocks[2].page_num = sorted_blocks[1].page_num
    /\ Len(result) = 1
    /\ result[1].text = <<"a">>
    /\ origin[1].anchor = 2

\* The least box that holds the boxes of the fragments of the set P.
UnionBox(P) ==
    << CHOOSE v \in { sorted_blocks[m].bbox[1] : m \in P } :
           \A m \in P : v <= sorted_blocks[m].bbox[1],
       CHOOSE v \in { sorted_blocks[m].bbox[2] : m \in P } :
           \A m \in P : v <= sorted_blocks[m].bbox[2],
       CHOOSE v \in { sorted_blocks[m].bbox[3] : m \in P } :
           \A m \in P : v >= sorted_blocks[m].bbox[3],
       CHOOSE v \in { sorted_blocks[m].bbox[4] : m \in P } :
           \A m \in P : v >= sorted_blocks[m].bbox[4] >>

\* C26: a block made of a marker and content has the font size, font
\* name, bold, italic and monospace of the first content fragment, the
\* indent level and page of the marker, and as its box the union of the
\* boxes of the marker and of every fused fragment.
C26_ItemStyleAndBox ==
    \A k \in 1..Len(origin) :
        IsListEntry(origin[k]) =>
            LET marker == sorted_blocks[origin[k].anchor]
                content == sorted_blocks[origin[k].anchor + 1] IN
            /\ merged[k].font_size = content.font_size
            /\ merged[k].font_name = content.font_name
            /\ merged[k].is_bold = content.is_bold
            /\ merged[k].is_italic = content.is_italic
            /\ merged[k].is_monospace = content.is_monospace
            /\ merged[k].indent_level = marker.indent_level
            /\ merged[k].page_num = marker.page_num
            /\ merged[k].bbox = UnionBox(origin[k].parts)
            /\ \A m \in origin[k].parts :
                   /\ merged[k].bbox[1] <= sorted_blocks[m].bbox[1]
                   /\ merged[k].bbox[2] <= sorted_blocks[m].bbox[2]
                   /\ merged[k].bbox[3] >= sorted_blocks[m].bbox[3]
                   /\ merged[k].bbox[4] >= sorted_blocks[m].bbox[4]

\* A bullet, bold italic monospace content below it to its left and a plain
\* second line made one block: the style of the content, the indent of
\* the bullet, a box wider and taller than each of the three.
C26_Witness ==
    /\ MergeDone
    /\ Len(result) = 1
    /\ origin[1].kind = "bullet"
    /\ origin[1].parts = 1..3
    /\ result[1].font_name = "Courier-BoldOblique"
    /\ result[1].is_bold
    /\ result[1].indent_level = 1
    /\ sorted_blocks[3].font_name = "Arial"
    /\ result[1].bbox = <<60, 100, 97, 142>>

(***************************************************************************)
(* Trailing arrows: the merger on lines that end with the continuation     *)
(* arrow, on plain lines and on markers, on two neighbouring lines and on  *)
(* a line far below them.                                                  *)
(***************************************************************************)
ArrowTexts == { <<"a", SPACE, ARROW>>, <<"b">>, <<BULLET>>, <<"1", ".">> }

ArrowPlaces == { <<0, 100>>, <<0, 114>>, <<0, 150>> }

ArrowFragments ==
    { Fragment(t, at[1], at[2]) : t \in ArrowTexts, at \in ArrowPlaces }

InitArrow ==
    /\ options = DefaultOptions
    /\ pc = "start"
    /\ blocks \in UNION { [1..n -> ArrowFragments] : n \in 0..MaxBlocks }
    /\ sorted_blocks = <<>>
    /\ i = 1
    /\ j = 1
    /\ merged = <<>>
    /\ merged_text = <<>>
    /\ merged_bbox = <<0, 0, 0, 0>>
    /\ blocks_consumed = 0
    /\ origin = <<>>
    /\ args = Idle
    /\ result = Idle
    /\ ConverterConstructed
    /\ MainNotEntered
    /\ NothingWritten
    /\ NothingRendered

SpecArrow == InitArrow /\ [][NextMerge]_vars

EndsWithArrow(p) == endswith(strip(sorted_blocks[p].text), <<ARROW>>)

StartsWithHash(p) == startswith(strip(sorted_blocks[p].text), <<HASH>>)

\* The fragment at q lies further below the one at p than the ordinary
\* gap test allows.
TooFarBelow(p, q) ==
    sorted_blocks[q].bbox[2] - sorted_blocks[p].bbox[4]
        > (sorted_blocks[p].bbox[4] - sorted_blocks[p].bbox[2])
              + options.line_merge_threshold

\* C25: in a paragraph, a fragment is pulled in by the trailing-arrow rule
\* exactly when the line fused just before it ends with the arrow: such a
\* line always takes the next fragment of its page that does not start
\* with '#', and a fragment the gap test would refuse is taken only if
\* the line just before it ends with the arrow (or it leads with one).
C25_ArrowOfPrecedingLine ==
    MergeDone =>
        \A k \in 1..Len(origin) :
            origin[k].kind = "para" =>
                \A m \in origin[k].parts :
                    /\ ( /\ m < Len(sorted_blocks)
                         /\ EndsWithArrow(m)
                         /\ sorted_blocks[m + 1].page_num = sorted_blocks[m].page_num
                         /\ ~StartsWithHash(m + 1)
                         /\ ~StartsWithHash(origin[k].anchor) )
                           => m + 1 \in origin[k].parts
                    /\ ( /\ m + 1 \in origin[k].parts
                         /\ TooFarBelow(m, m + 1)
                         /\ ~is_continuation_arrow(strip(sorted_blocks[m + 1].text)) )
                           => EndsWithArrow(m)

(***************************************************************************)
(* The page: _render_page_markdown on the text blocks, images and links of *)
(* a PageContent.  A directory and a file name are texts.                  *)
(***************************************************************************)
ImageInfo(bbox, page_num, filename) ==
    [ bbox |-> bbox, page_num |-> page_num, filename |-> filename ]

PageContent(page_num, text_blocks, page_images, links, base_font_size) ==
    [ page_num |-> page_num, text_blocks |-> text_blocks, images |-> page_images,
      links |-> links, base_font_size |-> base_font_size ]

\* lines 856-858: link_map[link.bbox] = link, a later link replacing an
\* earlier one of the same box
RECURSIVE link_map_of(_)
link_map_of(links) ==
    IF links = <<>> THEN <<>>
    ELSE LET link == links[Len(links)]
             before == link_map_of(SubSeq(links, 1, Len(links) - 1)) IN
         IF \E k \in 1..Len(before) : before[k].bbox = link.bbox
         THEN [ k \in 1..Len(before) |->
                    IF before[k].bbox = link.bbox THEN link ELSE before[k] ]
         ELSE Append(before, link)

\* lines 864-868: the (y_pos, md_text) of the text blocks that render to
\* something
RECURSIVE text_elements(_, _, _)
text_elements(text_blocks, base_font_size, link_map) ==
    IF text_blocks = <<>> THEN <<>>
    ELSE LET block == text_blocks[1]
             md_text == format_text_block(block, base_font_size, link_map)
             rest == text_elements(Tail(text_blocks), base_font_size, link_map) IN
         IF strip_blank(md_text) # <<>>
         THEN << <<block.bbox[2], md_text>> >> \o rest
         ELSE rest

\* lines 873-877: the reference to an image (no directory is the empty
\* text)
image_markdown(img) ==
    IF options.image_output_dir # <<>>
    THEN <<"!", "[", "I", "m", "a", "g", "e", "]", "(">>
             \o options.image_output_dir \o <<"/">> \o img.filename \o <<")">>
    ELSE <<"!", "[", "I", "m", "a", "g", "e", SPACE>>
             \o img.filename \o <<"]", "(", ")">>

\* lines 871-878
image_elements(page_images) ==
    [ k \in 1..Len(page_images) |->
          <<page_images[k].bbox[2], image_markdown(page_images[k])>> ]

\* the elements as collected, not sorted
sort_elements_as_collected(elements) == elements

\* line 881: elements.sort(key=lambda x: x[0]); the sort is stable
RECURSIVE sort_elements(_)
sort_elements(elements) ==
    IF elements = <<>> THEN <<>>
    ELSE LET el == elements[Len(elements)]
             before == sort_elements(SubSeq(elements, 1, Len(elements) - 1))
             n == Cardinality({ k \in 1..Len(before) : before[k][1] <= el[1] }) IN
         SubSeq(before, 1, n) \o <<el>> \o SubSeq(before, n + 1, Len(before))

\* _render_page_markdown(content)
render_page_markdown(content) ==
    LET link_map == link_map_of(content.links)
        elements == sort_elements(
                        text_elements(content.text_blocks, content.base_font_size,
                                      link_map)
                        \o image_elements(content.images))
        lines == [ k \in 1..Len(elements) |-> elements[k][2] ] IN
    post_process_markdown(join(<<NEWLINE, NEWLINE>>, lines))

ApplyRenderPageMarkdown ==
    /\ pc = "content"
    /\ result' = render_page_markdown(args.content)
    /\ pc' = "render_page_markdown"
    /\ UNCHANGED <<options, mergeVars, convVars, cliVars, ioVars, renderVars, args>>

NextRender == ApplyRenderPageMarkdown

MaxPageBlocks == 3

MaxPageImages == 2

\* Text, a heading (24 pt on a 12 pt base), a list item, a blank text.
PageTexts == { <<"a">>, <<"h">>, <<HYPHEN, SPACE, "b">>, <<SPACE>> }

PageTops == { 100, 200 }

PageBlock(text, top) ==
    TextBlock(text, IF text = <<"h">> THEN 240 ELSE 120, "Arial", FALSE, FALSE,
              <<72, top, 172, top + 12>>, 0, FALSE, 0)

PageBlocks == { PageBlock(t, y) : t \in PageTexts, y \in PageTops }

\* The k-th image of the page, placed at the top y.
PageImage(k, y) == ImageInfo(<<72, y, 172, y + 50>>, 0, <<"f", str_of(k)[1]>>)

ImageDirs == { <<>>, <<"d">> }

InitRender ==
    /\ \E dir \in ImageDirs :
           options = [ DefaultOptions EXCEPT !.image_output_dir = dir ]
    /\ pc = "content"
    /\ \E n \in 0..MaxPageBlocks, m \in 0..MaxPageImages :
           \E text_blocks \in [1..n -> PageBlocks], tops \in [1..m -> PageTops \cup {150}] :
               args = [ content |->
                          PageContent(0, text_blocks,
                                      [ k \in 1..m |-> PageImage(k, tops[k]) ],
                                      <<>>, 120) ]
    /\ blocks = <<>>
    /\ sorted_blocks = <<>>
    /\ i = 1
    /\ j = 1
    /\ merged = <<>>
    /\ merged_text = <<>>
    /\ merged_bbox = <<0, 0, 0, 0>>
    /\ blocks_consumed = 0
    /\ origin = <<>>
    /\ result = Idle
    /\ ConverterConstructed
    /\ MainNotEntered
    /\ NothingWritten
    /\ NothingRendered

SpecRender == InitRender /\ [][NextRender]_vars

RenderDone == pc = "render_page_markdown"

\* What the page holds to emit, as collected: the top and the rendering
\* of the text blocks that do not render blank, then those of the images.
Emitted(content) ==
    LET shown == SelectSeq(content.text_blocks,
                           LAMBDA b : \E k \in 1..Len(format_text_block(b, content.base_font_size, <<>>)) :
                                          format_text_block(b, content.base_font_size, <<>>)[k] \notin Blank) IN
    [ k \in 1..Len(shown) |->
          [ top |-> shown[k].bbox[2],
            text |-> format_text_block(shown[k], content.base_font_size, <<>>) ] ]
    \o [ k \in 1..Len(content.images) |->
            [ top |-> content.images[k].bbox[2],
              text |-> image_markdown(content.images[k]) ] ]

\* The place of the k-th of the elements es in the page: after those
\* higher up, and after those of its own top collected before it.
PlaceOf(es, k) ==
    1 + Cardinality({ m \in 1..Len(es) :
                          \/ es[m].top < es[k].top
                          \/ es[m].top = es[k].top /\ m < k })

\* C27: the page is its rendered text blocks and image references by top,
\* elements of equal top in the order collected (text blocks before
\* images), with one blank line between neighbours; a text block that
\* renders blank is left out.
C27_PageInTopOrder ==
    RenderDone =>
        LET es == Emitted(args.content)
            out == split_lines(result) IN
        IF es = <<>> THEN result = <<>>
        ELSE /\ Len(out) = 2 * Len(es) - 1
             /\ \A k \in 1..Len(es) : out[2 * PlaceOf(es, k) - 1] = es[k].text
             /\ \A k \in 1..(Len(es) - 1) : out[2 * k] = <<>>

\* Text at top 200, a blank text and a heading at top 100, images at tops
\* 100 and 150: the heading, the first image, the second image, the text.
C27_Witness ==
    /\ RenderDone
    /\ options.image_output_dir = <<>>
    /\ Len(args.content.text_blocks) = 3
    /\ args.content.text_blocks[1].bbox[2] = 200
    /\ args.content.text_blocks[2].text = <<SPACE>>
    /\ args.content.text_blocks[3].text = <<"h">>
    /\ split_lines(result) =
           << <<HASH, SPACE, "h">>, <<>>,
              <<"!", "[", "I", "m", "a", "g", "e", SPACE, "f", "1", "]", "(", ")">>, <<>>,
              <<"!", "[", "I", "m", "a", "g", "e", SPACE, "f", "2", "]", "(", ")">>, <<>>,
              <<"a">> >>

(***************************************************************************)
(* Order and progress of the merger, under SpecMerge and, for termination, *)
(* under the same steps taken as long as one is possible.                  *)
(***************************************************************************)
\* C28: the blocks the merger returns come in non-decreasing order of
\* their top, and the top of each block's box is the top of the fragment
\* that started it, whatever the order the fragments were given in.
C28_BlocksInTopOrder ==
    /\ \A k \in 1..Len(origin) :
           merged[k].bbox[2] = sorted_blocks[origin[k].anchor].bbox[2]
    /\ \A k \in 1..(Len(merged) - 1) : merged[k].bbox[2] <= merged[k + 1].bbox[2]
    /\ MergeDone =>
           /\ result = merged
           /\ \A k \in 1..(Len(result) - 1) : result[k].bbox[2] <= result[k + 1].bbox[2]

\* Three fragments given bottom-up were returned as two blocks, the upper
\* one made of two lines.
C28_Witness ==
    /\ MergeDone
    /\ Len(blocks) = 3
    /\ blocks[1].bbox[2] > blocks[2].bbox[2]
    /\ blocks[2].bbox[2] > blocks[3].bbox[2]
    /\ Len(result) = 2
    /\ Cardinality(origin[1].parts) = 2
    /\ result[1].bbox[2] = 100
    /\ result[2].bbox[2] = 150

\* The merger goes on as long as a step is possible.
SpecMergeRuns == InitMerge /\ [][NextMerge]_vars /\ WF_vars(NextMerge)

InIteration == pc \in {"loop", "bullet_cont", "number_cont", "para"}

\* The blocks made so far and the markers dropped so far account for the
\* fragments before p, each once and in sorted order.
ConsumedOnceBefore(p) ==
    /\ \A k \in 1..Len(origin) :
           /\ origin[k].parts # {}
           /\ origin[k].parts =
                  origin[k].anchor..(origin[k].anchor + Cardinality(origin[k].parts) - 1)
           /\ \A m \in origin[k].parts : m < p
           /\ k < Len(origin) =>
                  \A m \in origin[k].parts : m < origin[k + 1].anchor
    /\ \A m \in 1..(p - 1) :
           \/ Cardinality({ k \in 1..Len(origin) : m \in origin[k].parts }) = 1
           \/ /\ ~Covered(m)
              /\ IsMarkerText(sorted_blocks[m].text)

\* C29: the merger ends; every iteration moves the cursor forward; each
\* fragment of the sorted list is used once, as a dropped lone marker or
\* in exactly one block, in sorted order; the cursor moves past a
\* paragraph by as many fragments as were fused into it; and there are
\* at most as many blocks as fragments.
C29_EachFragmentOnce ==
    /\ <>(pc = "done")
    /\ [][(InIteration /\ pc' = "loop") => i' > i]_vars
    /\ [][(pc = "para" /\ pc' = "loop") =>
              /\ count_merged_blocks(sorted_blocks, i) = blocks_consumed
              /\ i' = i + blocks_consumed
              /\ origin'[Len(origin')].parts = i..(i' - 1)]_vars
    /\ [](pc = "loop" => ConsumedOnceBefore(i))
    /\ [](pc = "done" =>
              /\ ConsumedOnceBefore(Len(sorted_blocks) + 1)
              /\ Len(result) <= Len(blocks)
              /\ Len(sorted_blocks) = Len(blocks))

\* Three lines: the first two were fused into one paragraph, and the
\* cursor stands on the third.
C29_Witness ==
    /\ pc = "loop"
    /\ i = 3
    /\ Len(sorted_blocks) = 3
    /\ Len(merged) = 1
    /\ origin[1].kind = "para"
    /\ origin[1].parts = {1, 2}

(***************************************************************************)
(* Indent levels of a page: _extract_text_blocks computes the thresholds   *)
(* from the left edges of all lines and then the level of each line.       *)
(***************************************************************************)
\* lines 317-326: the cluster (counted from 0) that the loop puts each of
\* the sorted positions in, from the k-th position on
RECURSIVE clusters_from(_, _, _, _, _, _)
clusters_from(positions, k, cluster_sum, cluster_len, index, placed) ==
    IF k > Len(positions) THEN placed
    ELSE IF positions[k] * cluster_len - cluster_sum > 25 * cluster_len
         THEN clusters_from(positions, k + 1, positions[k], 1, index + 1,
                            Append(placed, index + 1))
         ELSE clusters_from(positions, k + 1, cluster_sum + positions[k],
                            cluster_len + 1, index, Append(placed, index))

\* lines 311-326: the cluster of the x-origin x among x_positions
cluster_of(x, x_positions) ==
    LET positions == sorted_set(Range(x_positions))
        placed == clusters_from(positions, 2, positions[1], 1, 0, <<0>>)
        k == CHOOSE n \in 1..Len(positions) : positions[n] = x IN
    placed[k]

\* lines 212-222, 262: the thresholds of the page and the level of each line
indent_levels(x_positions) ==
    LET indent_thresholds == calculate_indent_thresholds(x_positions) IN
    [ k \in 1..Len(x_positions) |-> get_indent_level(x_positions[k], indent_thresholds) ]

ApplyIndentLevels ==
    /\ pc = "lines"
    /\ result' = [ indent_thresholds |-> calculate_indent_thresholds(args.x_positions),
                   indent_level |-> indent_levels(args.x_positions) ]
    /\ pc' = "indent_levels"
    /\ UNCHANGED <<options, mergeVars, convVars, cliVars, ioVars, renderVars, args>>

NextLevels == ApplyIndentLevels

MaxLineOrigins == 4

\* Left edges of lines: a margin and steps of 25, 12, 13 and 38 points.
LineOrigins == {72, 97, 109, 122, 160}

InitLevels ==
    /\ options = DefaultOptions
    /\ pc = "lines"
    /\ \E n \in 0..MaxLineOrigins : \E xs \in [1..n -> LineOrigins] :
           args = [ x_positions |-> xs ]
    /\ blocks = <<>>
    /\ sorted_blocks = <<>>
    /\ i = 1
    /\ j = 1
    /\ merged = <<>>
    /\ merged_text = <<>>
    /\ merged_bbox = <<0, 0, 0, 0>>
    /\ blocks_consumed = 0
    /\ origin = <<>>
    /\ result = Idle
    /\ ConverterConstructed
    /\ MainNotEntered
    /\ NothingWritten
    /\ NothingRendered

SpecLevels == InitLevels /\ [][NextLevels]_vars

\* C30: every line gets as its indent level the number of the cluster
\* that _calculate_indent_thresholds put its x-origin in.
C30_LevelIsCluster ==
    pc = "indent_levels" =>
        \A k \in 1..Len(args.x_positions) :
            result.indent_level[k] = cluster_of(args.x_positions[k], args.x_positions)
====
